---- MODULE Spec2Model ----
(***************************************************************************)
(* A model of cepy (fcamarlinghi/cepy): the Build model (lib/build.js),    *)
(* the Cepy front object (cepy.js) and the helpers they call.              *)
(*                                                                         *)
(* JavaScript strings are modelled as sequences of one-character strings,  *)
(* so that lower-casing, sorting, suffixing and pattern matching are       *)
(* computed the way the code computes them.  Other JavaScript values are   *)
(* tagged records: [t |-> "str" | "null" | "undef" | "num", s |-> chars].  *)
(***************************************************************************)
EXTENDS Integers, Sequences, FiniteSets, TLC

VARIABLES
    builds,     \* Cepy._builds: the sequence of Build objects
    lastIndex,  \* lastIndex of the two module-level /g regular expressions
    task,       \* per build: the promise chain running on it
    run,        \* the Cepy-level call in progress
    atEntry,    \* per build: the Build object as it was when _initialize was last entered
    calls,      \* number of Cepy-level calls made in this process
    fn,         \* pure-function harness: the function applied
    arg,        \* pure-function harness: its argument
    ret         \* pure-function harness: its result

vars == <<builds, lastIndex, task, run, atEntry, calls, fn, arg, ret>>

(***************************************************************************)
(* Bounds of the model.                                                    *)
(***************************************************************************)
NBuilds == 2
MaxCalls == 2
MaxStrLen == 3
MaxArrLen == 3

(***************************************************************************)
(* Characters and strings.                                                 *)
(***************************************************************************)
UpperChars == <<"A", "B", "C", "D", "E", "F", "G", "H", "I", "J", "K", "L", "M", "N", "O", "P", "Q", "R", "S", "T", "U", "V", "W", "X", "Y", "Z">>
LowerChars == <<"a", "b", "c", "d", "e", "f", "g", "h", "i", "j", "k", "l", "m", "n", "o", "p", "q", "r", "s", "t", "u", "v", "w", "x", "y", "z">>
DigitChars == {"0", "1", "2", "3", "4", "5", "6", "7", "8", "9"}
LetterChars == {UpperChars[i] : i \in DOMAIN UpperChars} \cup {LowerChars[i] : i \in DOMAIN LowerChars}
WhitespaceChars == {" "}

\* The characters of the model in the order of their UTF-16 code units.
CodeOrder == <<" ", "(", ")", "-", ".", "0", "1", "2", "3", "4", "5", "6", "7", "8", "9", "A", "B", "C", "D", "E", "F", "G", "H", "I", "J", "K", "L", "M", "N", "O", "P", "Q", "R", "S", "T", "U", "V", "W", "X", "Y", "Z", "_", "a", "b", "c", "d", "e", "f", "g", "h", "i", "j", "k", "l", "m", "n", "o", "p", "q", "r", "s", "t", "u", "v", "w", "x", "y", "z">>

CharCode(c) == CHOOSE i \in DOMAIN CodeOrder : CodeOrder[i] = c

\* String.prototype.toLowerCase, one character.
LowerChar(c) == IF \E i \in DOMAIN UpperChars : UpperChars[i] = c THEN LowerChars[CHOOSE i \in DOMAIN UpperChars : UpperChars[i] = c] ELSE c

\* String.prototype.toLowerCase.
toLowerCase(s) == IF s = <<>> THEN <<>> ELSE [i \in 1..Len(s) |-> LowerChar(s[i])]

\* The < of two JavaScript strings: lexicographic on code units.
RECURSIVE StrLess(_, _)
StrLess(x, y) ==
    IF y = <<>> THEN FALSE
    ELSE IF x = <<>> THEN TRUE
    ELSE IF Head(x) = Head(y) THEN StrLess(Tail(x), Tail(y))
    ELSE CharCode(Head(x)) < CharCode(Head(y))

EndsWith(s, suffix) == Len(s) >= Len(suffix) /\ SubSeq(s, Len(s) - Len(suffix) + 1, Len(s)) = suffix

\* All strings over an alphabet up to a length.
StringsUpTo(alphabet, n) == UNION {[1..k -> alphabet] : k \in 0..n}

(***************************************************************************)
(* JavaScript values.                                                      *)
(***************************************************************************)
Str(s) == [t |-> "str", s |-> s]
Null == [t |-> "null", s |-> <<>>]
Undefined == [t |-> "undef", s |-> <<>>]
Num == [t |-> "num", s |-> <<>>]

\* typeof v === 'string' && v.length > 0
IsNonEmptyString(v) == v.t = "str" /\ Len(v.s) > 0

\* The text a template literal `${v}` produces.
ToText(v) ==
    IF v.t = "str" THEN v.s
    ELSE IF v.t = "null" THEN <<"n", "u", "l", "l">>
    ELSE IF v.t = "undef" THEN <<"u", "n", "d", "e", "f", "i", "n", "e", "d">>
    ELSE <<"0">>

\* String or array configuration values (products, families).
RawStr(s) == [t |-> "str", s |-> s, a |-> <<>>]
RawArr(a) == [t |-> "arr", s |-> <<>>, a |-> a]
RawOther == [t |-> "num", s |-> <<>>, a |-> <<>>]
RawUndefined == [t |-> "undef", s |-> <<>>, a |-> <<>>]

(***************************************************************************)
(* The two patterns of lib/build.js and RegExp.prototype.test on a         *)
(* regular expression that carries the g flag.                             *)
(***************************************************************************)
\* [A-Za-z0-9._\-]
IdChar(c) == c \in LetterChars \/ c \in DigitChars \/ c \in {".", "_", "-"}

\* ^[A-Za-z0-9._\-]+$ on the whole string
bundleIdRegEx(s) == Len(s) >= 1 /\ \A i \in 1..Len(s) : IdChar(s[i])

\* The pieces of a string between its dots.
RECURSIVE SplitDots(_, _)
SplitDots(s, cur) ==
    IF s = <<>> THEN <<cur>>
    ELSE IF Head(s) = "." THEN <<cur>> \o SplitDots(Tail(s), <<>>)
    ELSE SplitDots(Tail(s), Append(cur, Head(s)))

\* \d{1,9}
VersionNumberPart(p) == Len(p) >= 1 /\ Len(p) <= 9 /\ \A i \in 1..Len(p) : p[i] \in DigitChars

\* (\w|_|-)+
VersionSuffixPart(p) == Len(p) >= 1 /\ \A i \in 1..Len(p) : (p[i] \in LetterChars \/ p[i] \in DigitChars \/ p[i] \in {"_", "-"})

\* ^\d{1,9}(\.\d{1,9}(\.\d{1,9}(\.(\w|_|-)+)?)?)?$ on the whole string
bundleVersionRegEx(s) ==
    LET parts == SplitDots(s, <<>>)
    IN /\ Len(parts) <= 4
       /\ \A i \in 1..Len(parts) : IF i <= 3 THEN VersionNumberPart(parts[i]) ELSE VersionSuffixPart(parts[i])

\* RegExp.prototype.test of a pattern with the g flag that is anchored by ^
\* (no m flag): the search starts at lastIndex, so the pattern can match only
\* when lastIndex is 0; a match leaves lastIndex at the end of the match (the
\* end of the string, by $), a failure resets it to 0.
RegExpTest(matchesWhole, index, s) ==
    IF index = 0 /\ matchesWhole
    THEN [result |-> TRUE, lastIndex |-> Len(s)]
    ELSE [result |-> FALSE, lastIndex |-> 0]

(***************************************************************************)
(* parseProducts, parseFamilies.                                           *)
(***************************************************************************)
\* The entries of an array that are non-empty strings, lower-cased.
LowerCasedStrings(a) ==
    LET kept == SelectSeq(a, LAMBDA e : e.t = "str" /\ Len(e.s) > 0)
    IN IF kept = <<>> THEN <<>> ELSE [i \in 1..Len(kept) |-> toLowerCase(kept[i].s)]

parseProducts(names) ==
    IF names.t = "str" /\ Len(names.s) > 0 THEN <<toLowerCase(names.s)>>
    ELSE IF names.t = "arr" THEN LowerCasedStrings(names.a)
    ELSE <<>>

\* An insertion that puts the string in front, whatever the sequence holds.
InsertSorted_front(x, sorted) == <<x>> \o sorted

\* Insert a string into a sorted sequence of strings.
RECURSIVE InsertSorted(_, _)
InsertSorted(x, sorted) ==
    IF sorted = <<>> THEN <<x>>
    ELSE IF StrLess(x, Head(sorted)) THEN <<x>> \o sorted
    ELSE <<Head(sorted)>> \o InsertSorted(x, Tail(sorted))

\* parseFamilies without result.sort()
sort_omitted(a) == a

\* Array.prototype.sort() with the default comparison, on strings.
RECURSIVE sort(_)
sort(a) == IF a = <<>> THEN <<>> ELSE InsertSorted(Head(a), sort(Tail(a)))

parseFamilies(names) ==
    IF names.t = "str" THEN RawStr(toLowerCase(names.s))
    ELSE IF names.t = "arr" THEN RawArr(sort(LowerCasedStrings(names.a)))
    ELSE RawArr(<<>>)

\* families.length, of a string or of an array
FamiliesLength(families) == IF families.t = "str" THEN Len(families.s) ELSE Len(families.a)

(***************************************************************************)
(* The product registry (lib/hosts.js): the families, and the product keys *)
(* each family defines.                                                    *)
(***************************************************************************)
photoshop == <<"p", "h", "o", "t", "o", "s", "h", "o", "p">>
illustrator == <<"i", "l", "l", "u", "s", "t", "r", "a", "t", "o", "r">>
indesign == <<"i", "n", "d", "e", "s", "i", "g", "n">>
flash == <<"f", "l", "a", "s", "h">>
aftereffects == <<"a", "f", "t", "e", "r", "e", "f", "f", "e", "c", "t", "s">>
premiere == <<"p", "r", "e", "m", "i", "e", "r", "e">>
prelude == <<"p", "r", "e", "l", "u", "d", "e">>
dreamweaver == <<"d", "r", "e", "a", "m", "w", "e", "a", "v", "e", "r">>
incopy == <<"i", "n", "c", "o", "p", "y">>
cc == <<"c", "c">>
cc2014 == <<"c", "c", "2", "0", "1", "4">>
cc2015 == <<"c", "c", "2", "0", "1", "5">>
cc2015_5 == <<"c", "c", "2", "0", "1", "5", ".", "5">>

HostFamilies == {cc, cc2014, cc2015, cc2015_5}
HostProducts(family) == {photoshop, illustrator, indesign, flash, aftereffects, premiere, prelude, dreamweaver, incopy}

\* getProduct returns a record (does not throw)
getProductDefined(product, family) == family \in HostFamilies /\ product \in HostProducts(family)

\* The display names of the registry.
Name_Photoshop == <<"P", "h", "o", "t", "o", "s", "h", "o", "p">>
Name_Illustrator == <<"I", "l", "l", "u", "s", "t", "r", "a", "t", "o", "r">>
Name_InDesign == <<"I", "n", "D", "e", "s", "i", "g", "n">>
Name_Flash == <<"F", "l", "a", "s", "h">>
Name_AfterEffects == <<"A", "f", "t", "e", "r", "E", "f", "f", "e", "c", "t", "s">>
Name_After_Effects == <<"A", "f", "t", "e", "r", " ", "E", "f", "f", "e", "c", "t", "s">>
Name_Premiere == <<"P", "r", "e", "m", "i", "e", "r", "e">>
Name_Premiere_Pro == <<"P", "r", "e", "m", "i", "e", "r", "e", " ", "P", "r", "o">>
Name_Prelude == <<"P", "r", "e", "l", "u", "d", "e">>
Name_Dreamweaver == <<"D", "r", "e", "a", "m", "w", "e", "a", "v", "e", "r">>
Name_InCopy == <<"I", "n", "C", "o", "p", "y">>

\* One record of HOSTS; the versions are in tenths (16.9 is 169).
HostRecord(familyname, name, ids, min, max) ==
    [familyname |-> familyname, name |-> name, ids |-> ids, version |-> [min |-> min, max |-> max]]

HOSTS_cc2015_5 ==
    (photoshop :> HostRecord(Name_Photoshop, Name_Photoshop, <<"PHXS", "PHSP">>, 170, 179)) @@
    (illustrator :> HostRecord(Name_Illustrator, Name_Illustrator, <<"ILST">>, 200, 209)) @@
    (indesign :> HostRecord(Name_InDesign, Name_InDesign, <<"IDSN">>, 110, 119)) @@
    (flash :> HostRecord(Name_Flash, Name_Flash, <<"FLPR">>, 150, 159)) @@
    (aftereffects :> HostRecord(Name_AfterEffects, Name_After_Effects, <<"AEFT">>, 135, 139)) @@
    (premiere :> HostRecord(Name_Premiere, Name_Premiere_Pro, <<"PPRO">>, 100, 109)) @@
    (prelude :> HostRecord(Name_Prelude, Name_Prelude, <<"PRLD">>, 50, 59)) @@
    (dreamweaver :> HostRecord(Name_Dreamweaver, Name_Dreamweaver, <<"DRWV">>, 150, 159)) @@
    (incopy :> HostRecord(Name_InCopy, Name_InCopy, <<"AICY">>, 110, 119))

HOSTS_cc2015 ==
    (photoshop :> HostRecord(Name_Photoshop, Name_Photoshop, <<"PHXS", "PHSP">>, 160, 169)) @@
    (illustrator :> HostRecord(Name_Illustrator, Name_Illustrator, <<"ILST">>, 190, 199)) @@
    (indesign :> HostRecord(Name_InDesign, Name_InDesign, <<"IDSN">>, 110, 119)) @@
    (flash :> HostRecord(Name_Flash, Name_Flash, <<"FLPR">>, 150, 159)) @@
    (aftereffects :> HostRecord(Name_AfterEffects, Name_After_Effects, <<"AEFT">>, 135, 139)) @@
    (premiere :> HostRecord(Name_Premiere, Name_Premiere_Pro, <<"PPRO">>, 90, 99)) @@
    (prelude :> HostRecord(Name_Prelude, Name_Prelude, <<"PRLD">>, 40, 49)) @@
    (dreamweaver :> HostRecord(Name_Dreamweaver, Name_Dreamweaver, <<"DRWV">>, 150, 159)) @@
    (incopy :> HostRecord(Name_InCopy, Name_InCopy, <<"AICY">>, 110, 119))

HOSTS_cc2014 ==
    (photoshop :> HostRecord(Name_Photoshop, Name_Photoshop, <<"PHXS", "PHSP">>, 150, 159)) @@
    (illustrator :> HostRecord(Name_Illustrator, Name_Illustrator, <<"ILST">>, 180, 189)) @@
    (indesign :> HostRecord(Name_InDesign, Name_InDesign, <<"IDSN">>, 100, 109)) @@
    (flash :> HostRecord(Name_Flash, Name_Flash, <<"FLPR">>, 140, 149)) @@
    (aftereffects :> HostRecord(Name_AfterEffects, Name_After_Effects, <<"AEFT">>, 130, 134)) @@
    (premiere :> HostRecord(Name_Premiere, Name_Premiere_Pro, <<"PPRO">>, 80, 89)) @@
    (prelude :> HostRecord(Name_Prelude, Name_Prelude, <<"PRLD">>, 30, 39)) @@
    (dreamweaver :> HostRecord(Name_Dreamweaver, Name_Dreamweaver, <<"DRWV">>, 140, 149)) @@
    (incopy :> HostRecord(Name_InCopy, Name_InCopy, <<"AICY">>, 100, 109))

HOSTS_cc ==
    (photoshop :> HostRecord(Name_Photoshop, Name_Photoshop, <<"PHXS", "PHSP">>, 140, 149)) @@
    (illustrator :> HostRecord(Name_Illustrator, Name_Illustrator, <<"ILST">>, 170, 179)) @@
    (indesign :> HostRecord(Name_InDesign, Name_InDesign, <<"IDSN">>, 90, 99)) @@
    (flash :> HostRecord(Name_Flash, Name_Flash, <<"FLPR">>, 130, 139)) @@
    (aftereffects :> HostRecord(Name_AfterEffects, Name_After_Effects, <<"AEFT">>, 120, 129)) @@
    (premiere :> HostRecord(Name_Premiere, Name_Premiere_Pro, <<"PPRO">>, 70, 79)) @@
    (prelude :> HostRecord(Name_Prelude, Name_Prelude, <<"PRLD">>, 20, 29)) @@
    (dreamweaver :> HostRecord(Name_Dreamweaver, Name_Dreamweaver, <<"DRWV">>, 130, 139)) @@
    (incopy :> HostRecord(Name_InCopy, Name_InCopy, <<"AICY">>, 90, 99))

\* const HOSTS = Object.freeze({...})
HOSTS == (cc2015_5 :> HOSTS_cc2015_5) @@ (cc2015 :> HOSTS_cc2015) @@ (cc2014 :> HOSTS_cc2014) @@ (cc :> HOSTS_cc)

NoHost == HostRecord(<<>>, <<>>, <<>>, 0, 0)

\* getProduct that looks for the product before it looks for the family.
getProduct_productfirst(product, family) ==
    IF \A f \in DOMAIN HOSTS : product \notin DOMAIN HOSTS[f] THEN [error |-> "product", host |-> NoHost]
    ELSE IF family \notin DOMAIN HOSTS THEN [error |-> "family", host |-> NoHost]
    ELSE IF product \notin DOMAIN HOSTS[family] THEN [error |-> "product", host |-> NoHost]
    ELSE [error |-> "none", host |-> HOSTS[family][product]]

\* getProduct: the record, or the error thrown ("family": Unknown product
\* family; "product": Unknown product)
getProduct(product, family) ==
    IF family \notin DOMAIN HOSTS THEN [error |-> "family", host |-> NoHost]
    ELSE IF product \notin DOMAIN HOSTS[family] THEN [error |-> "product", host |-> NoHost]
    ELSE [error |-> "none", host |-> HOSTS[family][product]]

\* A JavaScript number in tenths, and the undefined of `let min, max`.
Tenths(n) == [t |-> "num", v |-> n]
NoNumber == [t |-> "undef", v |-> 0]

\* !x of a number or undefined
Falsy(x) == x.t = "undef" \/ x.v = 0

NoRange == [error |-> "none", min |-> NoNumber, max |-> NoNumber]

\* getVersionRange that looks at the first family only.
getVersionRange_first(product, families) ==
    IF families = <<>> THEN NoRange
    ELSE LET r == getProduct(product, families[1])
         IN IF r.error # "none" THEN [NoRange EXCEPT !.error = r.error]
            ELSE [error |-> "none", min |-> Tenths(r.host.version.min), max |-> Tenths(r.host.version.max)]

\* getVersionRange whose comparison of the maxima is the wrong way round.
RECURSIVE VersionRangeFrom_smallestmax(_, _, _, _, _)
VersionRangeFrom_smallestmax(product, families, i, min, max) ==
    IF i > Len(families) THEN [error |-> "none", min |-> min, max |-> max]
    ELSE LET r == getProduct(product, families[i])
         IN IF r.error # "none" THEN [NoRange EXCEPT !.error = r.error]
            ELSE VersionRangeFrom_smallestmax(product, families, i + 1,
                     IF Falsy(min) \/ r.host.version.min < min.v THEN Tenths(r.host.version.min) ELSE min,
                     IF Falsy(max) \/ r.host.version.max < max.v THEN Tenths(r.host.version.max) ELSE max)

getVersionRange_smallestmax(product, families) == VersionRangeFrom_smallestmax(product, families, 1, NoNumber, NoNumber)

\* The loop of getVersionRange from index i on, with the min and max it has so far.
RECURSIVE VersionRangeFrom(_, _, _, _, _)
VersionRangeFrom(product, families, i, min, max) ==
    IF i > Len(families) THEN [error |-> "none", min |-> min, max |-> max]
    ELSE LET r == getProduct(product, families[i])
         IN IF r.error # "none" THEN [NoRange EXCEPT !.error = r.error]
            ELSE VersionRangeFrom(product, families, i + 1,
                     IF Falsy(min) \/ r.host.version.min < min.v THEN Tenths(r.host.version.min) ELSE min,
                     IF Falsy(max) \/ r.host.version.max > max.v THEN Tenths(r.host.version.max) ELSE max)

\* getVersionRange: { min, max }, or the error getProduct throws
getVersionRange(product, families) == VersionRangeFrom(product, families, 1, NoNumber, NoNumber)

\* const map = {...} of mapToFamilyName
FamilyNameMap ==
    (Name_Illustrator :> <<"I", "l", "l", "u", "s", "t", "r", "a", "t", "o", "r", ",", "I", "l", "l", "u", "s", "t", "r", "a", "t", "o", "r", "3", "2", ",", "I", "l", "l", "u", "s", "t", "r", "a", "t", "o", "r", "6", "4">>) @@
    (Name_InCopy :> <<"I", "n", "C", "o", "p", "y", ",", "I", "n", "C", "o", "p", "y", "3", "2", ",", "I", "n", "C", "o", "p", "y", "6", "4">>) @@
    (Name_InDesign :> <<"I", "n", "D", "e", "s", "i", "g", "n", ",", "I", "n", "D", "e", "s", "i", "g", "n", "3", "2", ",", "I", "n", "D", "e", "s", "i", "g", "n", "6", "4">>) @@
    (Name_Photoshop :> <<"P", "h", "o", "t", "o", "s", "h", "o", "p", ",", "P", "h", "o", "t", "o", "s", "h", "o", "p", "3", "2", ",", "P", "h", "o", "t", "o", "s", "h", "o", "p", "6", "4">>)

\* mapToFamilyName without the map.
mapToFamilyName_unmapped(product) ==
    LET r == getProduct(product, cc)
    IN [error |-> r.error, text |-> r.host.familyname]

\* mapToFamilyName: map[productFamilyName] || productFamilyName
mapToFamilyName(product) ==
    LET r == getProduct(product, cc)
    IN [error |-> r.error,
        text |-> IF r.host.familyname \in DOMAIN FamilyNameMap THEN FamilyNameMap[r.host.familyname] ELSE r.host.familyname]

\* Number.prototype.toFixed(1) of a non-negative number given in tenths.
DecimalDigits == <<"0", "1", "2", "3", "4", "5", "6", "7", "8", "9">>

RECURSIVE DecimalText(_)
DecimalText(n) == IF n < 10 THEN <<DecimalDigits[n + 1]>> ELSE DecimalText(n \div 10) \o <<DecimalDigits[(n % 10) + 1]>>

toFixed1(n) == DecimalText(n \div 10) \o <<".">> \o <<DecimalDigits[(n % 10) + 1]>>

(***************************************************************************)
(* Build: construction, defaults, back-fill, validation.                   *)
(***************************************************************************)
DefaultExtensionVersion == <<"0", ".", "1", ".", "0">>
DefaultDebugPort == 8000

\* _.defaultsDeep(extension, defaultExtensionConfig): id, name, version;
\* the defaults define no author
ExtensionDefaults(e) ==
    [id |-> IF e.id.t = "undef" THEN Str(<<>>) ELSE e.id,
     version |-> IF e.version.t = "undef" THEN Str(DefaultExtensionVersion) ELSE e.version,
     name |-> IF e.name.t = "undef" THEN Str(<<>>) ELSE e.name,
     author |-> e.author]

\* _.defaultsDeep(bundle, defaultBundleConfig): the identity fields default to null
BundleDefaults(b) ==
    [id |-> IF b.id.t = "undef" THEN Null ELSE b.id,
     version |-> IF b.version.t = "undef" THEN Null ELSE b.version,
     name |-> IF b.name.t = "undef" THEN Null ELSE b.name,
     author |-> IF b.author.t = "undef" THEN Null ELSE b.author,
     port |-> IF b.port.t = "undef" THEN [t |-> "num", v |-> DefaultDebugPort] ELSE b.port]

\* A customizer that always takes the value of the extension.
BackFillValue_overwrite(a, b) == b

\* The customizer of _.extendWith: (a, b) => (typeof a === 'string' && a.length > 0) ? a : b
BackFillValue(a, b) == IF IsNonEmptyString(a) THEN a ELSE b

\* _.extendWith(bundle, _.pick(extensions[0], 'id', 'version', 'name', 'author'), customizer):
\* _.pick keeps the keys the extension has, and only those are assigned
BackFill(bundle, ext) ==
    [id |-> IF ext.id.t = "undef" THEN bundle.id ELSE BackFillValue(bundle.id, ext.id),
     version |-> IF ext.version.t = "undef" THEN bundle.version ELSE BackFillValue(bundle.version, ext.version),
     name |-> IF ext.name.t = "undef" THEN bundle.name ELSE BackFillValue(bundle.name, ext.name),
     author |-> IF ext.author.t = "undef" THEN bundle.author ELSE BackFillValue(bundle.author, ext.author),
     port |-> bundle.port]

\* str.replace(/[\s]+/g, '_'): every run of whitespace becomes one underscore
RECURSIVE ReplaceWhitespace(_, _)
ReplaceWhitespace(s, inRun) ==
    IF s = <<>> THEN <<>>
    ELSE IF Head(s) \in WhitespaceChars
         THEN (IF inRun THEN <<>> ELSE <<"_">>) \o ReplaceWhitespace(Tail(s), TRUE)
         ELSE <<Head(s)>> \o ReplaceWhitespace(Tail(s), FALSE)

BaseNameOf(id) == toLowerCase(ReplaceWhitespace(id, FALSE))

\* config.extensions: an array is kept, a single object is wrapped, anything else is []
NormalizeExtensions(e) == IF e.t \in {"arr", "obj"} THEN e.a ELSE <<>>

\* _.defaultsDeep(config, defaultBuildConfig) for products and families: undefined becomes []
BuildDefault(raw) == IF raw.t = "undef" THEN RawArr(<<>>) ELSE raw

\* new Build(name, config)
Build(name, config) ==
    [name |-> name,
     source |-> config.source,
     bundle |-> config.bundle,
     extensions |-> NormalizeExtensions(config.extensions),
     products |-> parseProducts(BuildDefault(config.products)),
     families |-> parseFamilies(BuildDefault(config.families)),
     baseName |-> <<>>,
     outputFile |-> name,
     initialized |-> FALSE]

ValidationErrors == {"extensions", "id", "version", "name", "author", "products", "families", "source"}

InitResult(b, li, error) == [build |-> b, lastIndex |-> li, error |-> error]

\* The checks that follow the bundle id check, without the check of families.length.
InitializeAfterId_nofamilies(b, li) ==
    LET version == b.bundle.version
        vtest == RegExpTest(bundleVersionRegEx(version.s), li.version, version.s)
        li2 == [li EXCEPT !.version = vtest.lastIndex]
        named == [b EXCEPT !.baseName = BaseNameOf(b.bundle.id.s)]
    IN IF ~IsNonEmptyString(version) THEN InitResult(b, li, "version")
       ELSE IF ~vtest.result THEN InitResult(b, li2, "version")
       ELSE IF ~IsNonEmptyString(b.bundle.name) THEN InitResult(b, li2, "name")
       ELSE IF ~IsNonEmptyString(b.bundle.author) THEN InitResult(b, li2, "author")
       ELSE IF Len(named.products) = 0 THEN InitResult(named, li2, "products")
       ELSE InitResult(named, li2, "none")

\* The checks of _initialize that follow the bundle id check.
InitializeAfterId(b, li) ==
    LET version == b.bundle.version
        vtest == RegExpTest(bundleVersionRegEx(version.s), li.version, version.s)
        li2 == [li EXCEPT !.version = vtest.lastIndex]
        named == [b EXCEPT !.baseName = BaseNameOf(b.bundle.id.s)]
    IN IF ~IsNonEmptyString(version) THEN InitResult(b, li, "version")
       ELSE IF ~vtest.result THEN InitResult(b, li2, "version")
       ELSE IF ~IsNonEmptyString(b.bundle.name) THEN InitResult(b, li2, "name")
       ELSE IF ~IsNonEmptyString(b.bundle.author) THEN InitResult(b, li2, "author")
       ELSE IF Len(named.products) = 0 THEN InitResult(named, li2, "products")
       ELSE IF FamiliesLength(named.families) = 0 THEN InitResult(named, li2, "families")
       ELSE InitResult(named, li2, "none")

\* The synchronous part of Build._initialize on a build that is not
\* initialized: everything up to the call of fs_stat.  li is the lastIndex of
\* the two regular expressions.
InitializeChecks(b, li) ==
    IF Len(b.extensions) = 0 THEN InitResult(b, li, "extensions")
    ELSE LET exts == [i \in 1..Len(b.extensions) |-> ExtensionDefaults(b.extensions[i])]
             bundle == BackFill(BundleDefaults(b.bundle), exts[1])
             b1 == [b EXCEPT !.extensions = exts, !.bundle = bundle]
             itest == RegExpTest(bundleIdRegEx(bundle.id.s), li.id, bundle.id.s)
             li1 == [li EXCEPT !.id = itest.lastIndex]
         IN IF ~IsNonEmptyString(bundle.id) THEN InitResult(b1, li, "id")
            ELSE IF ~itest.result THEN InitResult(b1, li1, "id")
            ELSE InitializeAfterId(b1, li1)

\* _initialize without its guard `if (this.initialized) return;`
initialize_unguarded(b, li) ==
    LET r == InitializeChecks(b, li)
    IN [build |-> r.build, lastIndex |-> r.lastIndex, error |-> r.error, stat |-> r.error = "none"]

\* A call of Build._initialize, up to the point where it returns: nothing at
\* all when the build is initialized; "stat" says that fs_stat is pending.
_initialize(b, li) ==
    IF b.initialized THEN [build |-> b, lastIndex |-> li, error |-> "none", stat |-> FALSE]
    ELSE LET r == InitializeChecks(b, li)
         IN [build |-> r.build, lastIndex |-> r.lastIndex, error |-> r.error, stat |-> r.error = "none"]

(***************************************************************************)
(* Build.decorate: the debug transform, and what the renderers need.       *)
(***************************************************************************)
DebugIdSuffix == <<".", "d", "e", "b", "u", "g">>
DebugNameSuffix == <<" ", "(", "d", "e", "b", "u", "g", ")">>

\* An id suffix that holds a space and parentheses.
DebugId_named(id) == ToText(id) \o DebugNameSuffix

\* `${id}.debug`
DebugId(id) == ToText(id) \o DebugIdSuffix

\* `${name} (debug)`
DebugName(name) == ToText(name) \o DebugNameSuffix

\* if (extension.name): a non-empty string is truthy; '', null and undefined are not
Truthy(v) == v.t = "num" \/ (v.t = "str" /\ Len(v.s) > 0)

\* The loop body without `if (extension.name)`.
DebugExtension_always(e) ==
    [e EXCEPT !.id = Str(DebugId(e.id)), !.name = Str(DebugName(e.name))]

\* The body of `for (let extension of this.extensions)` in the debug branch.
DebugExtension(e) ==
    [e EXCEPT !.id = Str(DebugId(e.id)),
              !.name = IF Truthy(e.name) THEN Str(DebugName(e.name)) ELSE e.name]

\* The assignments of the debug branch of Build.decorate.
DebugTransform(b) ==
    [b EXCEPT !.bundle.id = Str(DebugId(b.bundle.id)),
              !.bundle.name = Str(DebugName(b.bundle.name)),
              !.extensions = IF b.extensions = <<>> THEN <<>> ELSE [i \in 1..Len(b.extensions) |-> DebugExtension(b.extensions[i])]]

\* generateDotDebug throws unless bundle.debug.port is a number >= 0
DebugPortValid(b) == b.bundle.port.t = "num" /\ b.bundle.port.v >= 0

\* generateBundleManifest: every registry lookup of the <Host> list succeeds
ManifestHostsDefined(b) ==
    \A i \in 1..Len(b.products) :
        IF b.families.t = "str"
        THEN getProductDefined(b.products[i], b.families.s)
        ELSE /\ Len(b.families.a) > 0
             /\ \A j \in 1..Len(b.families.a) : getProductDefined(b.products[i], b.families.a[j])

(***************************************************************************)
(* lib/template.js: the <Host> list of the bundle manifest.                *)
(***************************************************************************)
\* Minimum mode with a bracketed range.
MinimumHosts_bracketed(hostInfo) ==
    [i \in 1..Len(hostInfo.ids) |->
        [name |-> hostInfo.ids[i],
         version |-> <<"[">> \o toFixed1(hostInfo.version.min) \o <<",">> \o toFixed1(hostInfo.version.max) \o <<"]">>]]

\* `<Host Name="${hostId}" Version="${hostInfo.version.min.toFixed(1)}" />` for each host id
MinimumHosts(hostInfo) ==
    [i \in 1..Len(hostInfo.ids) |-> [name |-> hostInfo.ids[i], version |-> toFixed1(hostInfo.version.min)]]

\* Range mode with the bounds of the first family.
RangeHosts_firstfamily(hostInfo, range) ==
    [i \in 1..Len(hostInfo.ids) |->
        [name |-> hostInfo.ids[i],
         version |-> <<"[">> \o toFixed1(hostInfo.version.min) \o <<",">> \o toFixed1(hostInfo.version.max) \o <<"]">>]]

\* `<Host Name="${hostId}" Version="[${min.toFixed(1)},${max.toFixed(1)}]" />` for each host id
RangeHosts(hostInfo, range) ==
    [i \in 1..Len(hostInfo.ids) |->
        [name |-> hostInfo.ids[i],
         version |-> <<"[">> \o toFixed1(range.min.v) \o <<",">> \o toFixed1(range.max.v) \o <<"]">>]]

\* The Host entries of one product: [error, hosts].  build.families[0] of an
\* empty array is undefined, which getProduct rejects as an unknown family.
ProductHosts(product, families) ==
    IF families.t = "str"
    THEN LET r == getProduct(product, families.s)
         IN IF r.error # "none" THEN [error |-> r.error, hosts |-> <<>>]
            ELSE [error |-> "none", hosts |-> MinimumHosts(r.host)]
    ELSE IF families.a = <<>> THEN [error |-> "family", hosts |-> <<>>]
    ELSE LET r == getProduct(product, families.a[1])
             range == getVersionRange(product, families.a)
         IN IF r.error # "none" THEN [error |-> r.error, hosts |-> <<>>]
            ELSE IF range.error # "none" THEN [error |-> range.error, hosts |-> <<>>]
            ELSE [error |-> "none", hosts |-> RangeHosts(r.host, range)]

\* for (const product of build.products): the list from product i on
RECURSIVE HostListFrom(_, _, _)
HostListFrom(build, i, hostList) ==
    IF i > Len(build.products) THEN [error |-> "none", hostList |-> hostList]
    ELSE LET r == ProductHosts(build.products[i], build.families)
         IN IF r.error # "none" THEN [error |-> r.error, hostList |-> <<>>]
            ELSE HostListFrom(build, i + 1, hostList \o r.hosts)

\* generateBundleManifest: the <Host> list and the family whose default
\* template is read, or the error thrown
generateBundleManifest(build) ==
    LET r == HostListFrom(build, 1, <<>>)
    IN [error |-> r.error,
        hostList |-> r.hostList,
        familyName |-> IF build.families.t = "str" THEN build.families.s
                       ELSE IF build.families.a = <<>> THEN <<>> ELSE build.families.a[1]]

(***************************************************************************)
(* lib/template.js: generateMXI.  targets is the sequence of its keys in   *)
(* insertion order, each with minFamily and version { min, max }.          *)
(***************************************************************************)
NullNumber == [t |-> "null", v |-> 0]

\* Array.isArray(build.families) ? build.families : [build.families]
TargetFamilies(build) == IF build.families.t = "arr" THEN build.families.a ELSE <<build.families.s>>

\* The index of a product among the targets, 0 when it is not a key.
TargetIndex(targets, product) ==
    IF \E i \in 1..Len(targets) : targets[i].product = product
    THEN CHOOSE i \in 1..Len(targets) : targets[i].product = product
    ELSE 0

\* targets[product] = { minFamily: targetFamilies[0], version: { min: null, max: null } }
NewTarget(product, targetFamilies) ==
    [product |-> product,
     minFamily |-> IF targetFamilies = <<>> THEN <<>> ELSE targetFamilies[1],
     min |-> NullNumber,
     max |-> NullNumber]

\* The two updates of version that save the maximum of every build, range mode or not.
SaveRange_alwaysmax(version, range, supportsFamilyRange) ==
    [version EXCEPT
        !.min = IF version.min.t = "null" \/ (range.min.t = "num" /\ version.min.t = "num" /\ range.min.v < version.min.v)
                THEN range.min ELSE version.min,
        !.max = IF version.max.t = "null" \/ (range.max.t = "num" /\ version.max.t = "num" /\ range.max.v > version.max.v)
                THEN range.max ELSE version.max]

\* The two updates of version that keep the minimum of the first build.
SaveRange_firstmin(version, range, supportsFamilyRange) ==
    [version EXCEPT
        !.min = IF version.min.t = "null" THEN range.min ELSE version.min,
        !.max = IF supportsFamilyRange /\ (version.max.t = "null" \/ (range.max.t = "num" /\ version.max.t = "num" /\ range.max.v > version.max.v))
                THEN range.max ELSE version.max]

\* if (version.min === null || range.min < version.min) ...;
\* if (supportsFamilyRange) { if (version.max === null || range.max > version.max) ... }
SaveRange(version, range, supportsFamilyRange) ==
    [version EXCEPT
        !.min = IF version.min.t = "null" \/ (range.min.t = "num" /\ version.min.t = "num" /\ range.min.v < version.min.v)
                THEN range.min ELSE version.min,
        !.max = IF supportsFamilyRange /\ (version.max.t = "null" \/ (range.max.t = "num" /\ version.max.t = "num" /\ range.max.v > version.max.v))
                THEN range.max ELSE version.max]

\* The body of `for (let product of build.products)` of the first loop: [error, targets]
AccumulateProduct(targets, build, product) ==
    LET known == IF TargetIndex(targets, product) = 0 THEN Append(targets, NewTarget(product, TargetFamilies(build))) ELSE targets
        i == TargetIndex(known, product)
        range == getVersionRange(product, TargetFamilies(build))
    IN IF range.error # "none" THEN [error |-> range.error, targets |-> known]
       ELSE [error |-> "none", targets |-> [known EXCEPT ![i] = SaveRange(known[i], range, build.families.t = "arr")]]

\* The first loop from product j of build b on.
RECURSIVE AccumulateFrom(_, _, _, _)
AccumulateFrom(targets, bs, b, j) ==
    IF b > Len(bs) THEN [error |-> "none", targets |-> targets]
    ELSE IF j > Len(bs[b].products) THEN AccumulateFrom(targets, bs, b + 1, 1)
    ELSE LET r == AccumulateProduct(targets, bs[b], bs[b].products[j])
         IN IF r.error # "none" THEN r ELSE AccumulateFrom(r.targets, bs, b, j + 1)

\* An attribute that a template literal writes, or leaves out.
Attribute(text) == [present |-> TRUE, text |-> text]
NoAttribute == [present |-> FALSE, text |-> <<>>]

\* One <file ... /> entry; toFixed of a version that is not a number throws a TypeError.
FileEntry(target, build) ==
    LET alias == mapToFamilyName(target.product)
    IN IF alias.error # "none" THEN [error |-> alias.error]
       ELSE IF target.min.t # "num" THEN [error |-> "typeerror"]
       ELSE [error |-> "none",
             products |-> alias.text,
             minVersion |-> toFixed1(target.min.v),
             maxVersion |-> IF target.max.t = "null" THEN NoAttribute ELSE Attribute(toFixed1(target.max.v)),
             source |-> build.outputFile]

\* The <FileList> loop from product j of build b on: [error, fileList]
RECURSIVE FileListFrom(_, _, _, _, _)
FileListFrom(targets, bs, b, j, fileList) ==
    IF b > Len(bs) THEN [error |-> "none", fileList |-> fileList]
    ELSE IF j > Len(bs[b].products) THEN FileListFrom(targets, bs, b + 1, 1, fileList)
    ELSE LET e == FileEntry(targets[TargetIndex(targets, bs[b].products[j])], bs[b])
         IN IF e.error # "none" THEN [error |-> e.error, fileList |-> <<>>]
            ELSE FileListFrom(targets, bs, b, j + 1, Append(fileList, e))

\* const familyNameProducts = ['illustrator', 'incopy', 'indesign', 'photoshop']
familyNameProducts == <<illustrator, incopy, indesign, photoshop>>

\* One <product ... /> entry.
ProductEntry(target) ==
    LET r == getProduct(target.product, target.minFamily)
    IN IF r.error # "none" THEN [error |-> r.error]
       ELSE IF target.min.t # "num" THEN [error |-> "typeerror"]
       ELSE [error |-> "none",
             attribute |-> IF \E i \in 1..Len(familyNameProducts) : familyNameProducts[i] = target.product THEN "familyname" ELSE "name",
             value |-> r.host.familyname,
             version |-> toFixed1(target.min.v),
             maxversion |-> IF target.max.t = "null" THEN NoAttribute ELSE Attribute(toFixed1(target.max.v))]

\* for (let product in targets): the list from target i on
RECURSIVE ProductListFrom(_, _, _)
ProductListFrom(targets, i, productList) ==
    IF i > Len(targets) THEN [error |-> "none", productList |-> productList]
    ELSE LET e == ProductEntry(targets[i])
         IN IF e.error # "none" THEN [error |-> e.error, productList |-> <<>>]
            ELSE ProductListFrom(targets, i + 1, Append(productList, e))

NoDescriptor == [error |-> "none", mxiFilename |-> <<>>, targets |-> <<>>, fileList |-> <<>>, productList |-> <<>>]

\* The two lists of generateMXI, for the targets of the first loop.
Descriptor(bs, targets, fileResult, productResult) ==
    IF fileResult.error # "none" THEN [NoDescriptor EXCEPT !.error = fileResult.error]
    ELSE IF productResult.error # "none" THEN [NoDescriptor EXCEPT !.error = productResult.error]
    ELSE [error |-> "none",
          mxiFilename |-> bs[1].baseName \o <<".", "m", "x", "i">>,
          targets |-> targets,
          fileList |-> fileResult.fileList,
          productList |-> productResult.productList]

\* generateMXI up to the point where the template is read: builds[0].baseName
\* of an empty list throws a TypeError
generateMXI(bs) ==
    IF bs = <<>> THEN [NoDescriptor EXCEPT !.error = "typeerror"]
    ELSE IF AccumulateFrom(<<>>, bs, 1, 1).error # "none" THEN [NoDescriptor EXCEPT !.error = AccumulateFrom(<<>>, bs, 1, 1).error]
    ELSE Descriptor(bs,
                    AccumulateFrom(<<>>, bs, 1, 1).targets,
                    FileListFrom(AccumulateFrom(<<>>, bs, 1, 1).targets, bs, 1, 1, <<>>),
                    ProductListFrom(AccumulateFrom(<<>>, bs, 1, 1).targets, 1, <<>>))

(***************************************************************************)
(* Build configurations the model draws from.                              *)
(***************************************************************************)
Ext(id, version, name, author) == [id |-> id, version |-> version, name |-> name, author |-> author]
Bundle(id, version, name, author, port) == [id |-> id, version |-> version, name |-> name, author |-> author, port |-> port]
PortUnset == [t |-> "undef", v |-> 0]
Port(n) == [t |-> "num", v |-> n]
Extensions(a) == [t |-> "arr", a |-> a]
OneExtension(e) == [t |-> "obj", a |-> <<e>>]
NoExtensions == [t |-> "undef", a |-> <<>>]

ExtPanel == Ext(Str(<<"e", ".", "1">>), Str(<<"2", ".", "0">>), Str(<<"P">>), Str(<<"y">>))
ExtHidden == Ext(Str(<<"e", ".", "2">>), Undefined, Undefined, Str(<<"z">>))
ExtBare == Ext(Str(<<"E", "3">>), Undefined, Str(<<"Q">>), Undefined)

\* Every bundle field given, two extensions, minimum-mode family.
ConfigExplicit ==
    [source |-> TRUE,
     bundle |-> Bundle(Str(<<"A", ".", "b">>), Str(<<"1", ".", "0">>), Str(<<"N">>), Str(<<"x">>), PortUnset),
     extensions |-> Extensions(<<ExtPanel, ExtHidden>>),
     products |-> RawStr(<<"P", "h", "o", "t", "o", "s", "h", "o", "p">>),
     families |-> RawStr(<<"C", "C", "2", "0", "1", "5">>)]

\* No bundle field given: all four come from the first extension; range-mode families.
ConfigBackFilled ==
    [source |-> TRUE,
     bundle |-> Bundle(Undefined, Undefined, Undefined, Undefined, PortUnset),
     extensions |-> Extensions(<<ExtPanel, ExtHidden>>),
     products |-> RawArr(<<Str(photoshop), Str(illustrator)>>),
     families |-> RawArr(<<Str(<<"C", "C", "2", "0", "1", "5">>), Str(cc2014)>>)]

\* The first extension has neither a version nor an author; the second has an author.
ConfigMixed == [ConfigBackFilled EXCEPT !.bundle = Bundle(Str(<<>>), Undefined, Str(<<"N">>), Str(<<>>), PortUnset), !.extensions = Extensions(<<ExtBare, ExtPanel>>)]

BuildConfigs ==
    {ConfigExplicit,
     ConfigBackFilled,
     ConfigMixed,
     [ConfigExplicit EXCEPT !.bundle.id = Str(<<"a", " ", "b">>)],
     [ConfigExplicit EXCEPT !.bundle.version = Str(<<"1", ".", "a">>)],
     [ConfigExplicit EXCEPT !.bundle.name = Str(<<>>), !.extensions = Extensions(<<ExtHidden>>)],
     [ConfigExplicit EXCEPT !.extensions = NoExtensions],
     [ConfigBackFilled EXCEPT !.products = RawArr(<<Str(<<>>), Null>>)],
     [ConfigBackFilled EXCEPT !.families = RawOther],
     [ConfigExplicit EXCEPT !.source = FALSE, !.extensions = OneExtension(ExtPanel)],
     [ConfigExplicit EXCEPT !.bundle.port = Port(0 - 1)]}

(***************************************************************************)
(* State.                                                                  *)
(***************************************************************************)
BuildIds == 1..Len(builds)

Idle == [pc |-> "idle", chain |-> "none", debug |-> FALSE, error |-> "none"]
\* A boolean of JavaScript, and the object {} of `options || {}`.
Bool(b) == [t |-> "bool", b |-> b]
NoOptions == [k \in {} |-> Undefined]

\* !!v
ToBoolean(v) == IF v.t = "bool" THEN v.b ELSE Truthy(v)

\* _.defaults(object, source): a property of source is assigned only where
\* the property of object, the destination, is undefined.
defaults(object, source) ==
    [k \in DOMAIN object |-> IF object[k].t = "undef" /\ k \in DOMAIN source THEN source[k] ELSE object[k]]

\* The object literals that Cepy.launch and Cepy.pack hand to _.defaults as its destination.
LaunchDefaults == [product |-> Null, family |-> Null, decorate |-> Bool(TRUE), debug |-> Bool(FALSE)]
PackDefaults == [decorate |-> Bool(TRUE), debug |-> Bool(FALSE)]

\* What a run of Cepy.pack has done outside the process: the self-sign
\* command of generateCertificate, the final zxp.createPackage, and the
\* rimraf of the staging folder in .finally.
NoEffects == [selfSign |-> FALSE, sign |-> "no", removed |-> FALSE]

NoRun == [op |-> "none", phase |-> "none", target |-> 0, options |-> NoOptions, decorate |-> FALSE, debug |-> FALSE, product |-> Null, family |-> Null, failed |-> FALSE, error |-> "none", effects |-> NoEffects]

NoArg == RawUndefined
NoRet == [products |-> <<>>, families |-> RawArr(<<>>), id |-> <<>>, error |-> "none"]

\* The step of a chain that follows its call of _initialize.
FirstStep(chain) == IF chain = "decorate" THEN "transform" ELSE IF chain = "pack" THEN "zxp" ELSE "detect"

Settled(b) == task[b].pc \in {"idle", "done", "rejected"}
Quiescent == run.op = "none" /\ \A b \in BuildIds : task[b].pc = "idle"

\* The configurations with the valid builds only, and the ones the lifecycle runs on.
ValidConfigs == {ConfigExplicit, ConfigBackFilled}
LifecycleConfigs == ValidConfigs \cup {[ConfigExplicit EXCEPT !.bundle.port = Port(0 - 1)], [ConfigExplicit EXCEPT !.source = FALSE, !.extensions = OneExtension(ExtPanel)]}

\* Cepy(config): one Build per entry of config.builds.  The configurations
\* hold up to NBuilds builds: one drawn from `under`, at any position, among
\* valid builds; or no build at all.
Configurations(under) ==
    {<<>>} \cup UNION {{[b \in 1..n |-> Build(b, IF b = k THEN c ELSE d)] : k \in 1..n, c \in under, d \in ValidConfigs} : n \in 1..NBuilds}

LifecycleConfigurations == Configurations(LifecycleConfigs)
AnyConfigurations == Configurations(BuildConfigs)

Fresh(bs) ==
    /\ builds = bs
    /\ lastIndex = [id |-> 0, version |-> 0]
    /\ task = [b \in 1..Len(bs) |-> Idle]
    /\ run = NoRun
    /\ atEntry = bs
    /\ calls = 0
    /\ fn = "none"
    /\ arg = NoArg
    /\ ret = NoRet

Init == \E bs \in LifecycleConfigurations : Fresh(bs)

\* The state after Build.decorate, Build.pack or Build.launch has been called
\* on build b: the call runs _initialize synchronously and returns a promise.
CallBuild(st, b, chain, debug) ==
    LET r == _initialize(st.builds[b], st.lastIndex)
        pc == IF r.error # "none" THEN "rejected" ELSE IF r.stat THEN "stat" ELSE FirstStep(chain)
    IN [builds |-> [st.builds EXCEPT ![b] = r.build],
        lastIndex |-> r.lastIndex,
        task |-> [st.task EXCEPT ![b] = [pc |-> pc, chain |-> chain, debug |-> debug, error |-> r.error]],
        atEntry |-> [st.atEntry EXCEPT ![b] = st.builds[b]]]

\* Promise.map(this._builds, mapper): the mapper is called on the builds in
\* array order, in one turn of the event loop.
RECURSIVE CallBuildsFrom(_, _, _, _)
CallBuildsFrom(st, b, chain, debug) ==
    IF b > Len(st.builds) THEN st ELSE CallBuildsFrom(CallBuild(st, b, chain, debug), b + 1, chain, debug)

Current == [builds |-> builds, lastIndex |-> lastIndex, task |-> task, atEntry |-> atEntry]

Becomes(st) ==
    /\ builds' = st.builds
    /\ lastIndex' = st.lastIndex
    /\ task' = st.task
    /\ atEntry' = st.atEntry

Reject(b, error) == task' = [task EXCEPT ![b].pc = "rejected", ![b].error = error]
Goto(b, pc) == task' = [task EXCEPT ![b].pc = pc]

(***************************************************************************)
(* A new Cepy object in the same process: the regular expressions of       *)
(* lib/build.js are module-level and keep their lastIndex.                 *)
(***************************************************************************)
NewCepy ==
    /\ Quiescent
    /\ calls < MaxCalls
    /\ builds' \in AnyConfigurations
    /\ atEntry' = builds'
    /\ task' = [b \in 1..Len(builds') |-> Idle]
    /\ UNCHANGED <<lastIndex, run, calls, fn, arg, ret>>

(***************************************************************************)
(* The steps of the promise chains of a Build.                             *)
(***************************************************************************)
\* _initialize: fs_stat(this.source) settles
StatDone(b) ==
    /\ task[b].pc = "stat"
    /\ IF builds[b].source
       THEN /\ builds' = [builds EXCEPT ![b].initialized = TRUE]
            /\ Goto(b, FirstStep(task[b].chain))
       ELSE /\ Reject(b, "source")
            /\ UNCHANGED builds
    /\ UNCHANGED <<lastIndex, run, atEntry, calls, fn, arg, ret>>

\* Build.decorate: the debug transform and the synchronous part of generateDotDebug
Transform(b) ==
    /\ task[b].pc = "transform"
    /\ IF task[b].debug
       THEN /\ builds' = [builds EXCEPT ![b] = DebugTransform(builds[b])]
            /\ IF DebugPortValid(builds[b]) THEN Goto(b, "dotdebug") ELSE Reject(b, "port")
       ELSE /\ Goto(b, "manifest")
            /\ UNCHANGED builds
    /\ UNCHANGED <<lastIndex, run, atEntry, calls, fn, arg, ret>>

\* generateDotDebug: the template is read and the .debug file written, or not
DotDebug(b) ==
    /\ task[b].pc = "dotdebug"
    /\ \E ok \in BOOLEAN : IF ok THEN Goto(b, "manifest") ELSE Reject(b, "dotdebug")
    /\ UNCHANGED <<builds, lastIndex, run, atEntry, calls, fn, arg, ret>>

\* generateBundleManifest: templates read, hosts looked up, manifest written
Manifest(b) ==
    /\ task[b].pc = "manifest"
    /\ \E ok \in BOOLEAN : IF ok /\ ManifestHostsDefined(builds[b]) THEN Goto(b, "done") ELSE Reject(b, "manifest")
    /\ UNCHANGED <<builds, lastIndex, run, atEntry, calls, fn, arg, ret>>

\* Build.pack: zxp.createPackage settles
Zxp(b) ==
    /\ task[b].pc = "zxp"
    /\ \E ok \in BOOLEAN : IF ok THEN Goto(b, "done") ELSE Reject(b, "zxp")
    /\ UNCHANGED <<builds, lastIndex, run, atEntry, calls, fn, arg, ret>>

\* Build.launch: the product and the family, then hosts.getProduct.
\* this.products.find(product) is called with a string and throws a TypeError.
Detect(b) ==
    /\ task[b].pc = "detect"
    /\ LET family == IF IsNonEmptyString(run.family) THEN toLowerCase(run.family.s)
                     ELSE IF builds[b].families.t = "arr" THEN builds[b].families.a[1]
                     ELSE builds[b].families.s
       IN IF IsNonEmptyString(run.product) THEN Reject(b, "typeerror")
          ELSE IF getProductDefined(builds[b].products[1], family) THEN Goto(b, "install")
          ELSE Reject(b, "host")
    /\ UNCHANGED <<builds, lastIndex, run, atEntry, calls, fn, arg, ret>>

\* Build.launch: folders, executable, kill, debug flags, copy, start
Install(b) ==
    /\ task[b].pc = "install"
    /\ \E ok \in BOOLEAN : IF ok THEN Goto(b, "done") ELSE Reject(b, "launch")
    /\ UNCHANGED <<builds, lastIndex, run, atEntry, calls, fn, arg, ret>>

(***************************************************************************)
(* Cepy.decorate                                                           *)
(***************************************************************************)
\* target 0 is a name no build has
CepyDecorate(target, debug) ==
    /\ Quiescent
    /\ calls < MaxCalls
    /\ calls' = calls + 1
    /\ IF target \in BuildIds
       THEN /\ Becomes(CallBuild(Current, target, "decorate", debug))
            /\ run' = [NoRun EXCEPT !.op = "decorate", !.phase = "decorating", !.target = target, !.debug = debug, !.decorate = TRUE]
       ELSE /\ run' = [NoRun EXCEPT !.failed = TRUE]
            /\ UNCHANGED <<builds, lastIndex, task, atEntry>>
    /\ UNCHANGED <<fn, arg, ret>>

DecorateSettle ==
    /\ run.op = "decorate"
    /\ task[run.target].pc \in {"done", "rejected"}
    /\ run' = [NoRun EXCEPT !.failed = (task[run.target].pc = "rejected")]
    /\ task' = [task EXCEPT ![run.target] = Idle]
    /\ UNCHANGED <<builds, lastIndex, atEntry, calls, fn, arg, ret>>

(***************************************************************************)
(* Cepy.launch                                                             *)
(***************************************************************************)
LaunchProducts == {Null, Str(photoshop)}
LaunchFamilies == {Null, Str(<<"C", "C", "2", "0", "1", "4">>)}

\* The options objects that the callers of Cepy.launch pass.
LaunchOptions ==
    {NoOptions, [debug |-> Bool(TRUE)], [decorate |-> Bool(FALSE)]}
        \cup {[product |-> product, family |-> family, debug |-> Bool(debug)] : product \in LaunchProducts, family \in LaunchFamilies, debug \in BOOLEAN}

\* this._builds.size: an array has no such property
ArraySize(array) == Undefined

\* The config validation of Cepy.launch, for the build named: "none" or the error thrown.
\* The packaging section is the default one here, whose staging is '.staging',
\* so the check of the staging path passes.
LaunchValidation(target) ==
    IF ArraySize(builds).t = "num" /\ Len(builds) = 0 THEN "nobuilds"
    ELSE IF target \notin BuildIds THEN "notfound"
    ELSE "none"

CepyLaunch(target, options) ==
    /\ Quiescent
    /\ calls < MaxCalls
    /\ calls' = calls + 1
    /\ LET given == defaults(LaunchDefaults, options)
       IN IF LaunchValidation(target) = "none"
          THEN run' = [NoRun EXCEPT !.op = "launch", !.phase = "found", !.target = target, !.options = options,
                                    !.decorate = ToBoolean(given.decorate), !.debug = ToBoolean(given.debug),
                                    !.product = given.product, !.family = given.family]
          ELSE run' = [NoRun EXCEPT !.op = "launch", !.phase = "rejected", !.failed = TRUE, !.error = LaunchValidation(target), !.options = options]
    /\ UNCHANGED <<builds, lastIndex, task, atEntry, fn, arg, ret>>

\* .tap: decorate the build unless options.decorate is false
LaunchDecorate ==
    /\ run.op = "launch"
    /\ run.phase = "found"
    /\ IF run.decorate
       THEN /\ Becomes(CallBuild(Current, run.target, "decorate", run.debug))
            /\ run' = [run EXCEPT !.phase = "decorating"]
       ELSE /\ run' = [run EXCEPT !.phase = "decorated"]
            /\ UNCHANGED <<builds, lastIndex, task, atEntry>>
    /\ UNCHANGED <<calls, fn, arg, ret>>

\* .then: build.launch(options.product, options.family, ...)
LaunchBuild ==
    /\ run.op = "launch"
    /\ \/ run.phase = "decorated"
       \/ run.phase = "decorating" /\ task[run.target].pc = "done"
    /\ Becomes(CallBuild(Current, run.target, "launch", run.debug))
    /\ run' = [run EXCEPT !.phase = "launching"]
    /\ UNCHANGED <<calls, fn, arg, ret>>

LaunchSettle ==
    /\ run.op = "launch"
    /\ IF run.phase = "rejected"
       THEN /\ run' = [NoRun EXCEPT !.failed = TRUE, !.error = run.error]
            /\ UNCHANGED task
       ELSE /\ \/ task[run.target].pc = "rejected"
               \/ run.phase = "launching" /\ task[run.target].pc = "done"
            /\ run' = [NoRun EXCEPT !.failed = (task[run.target].pc = "rejected"), !.error = task[run.target].error]
            /\ task' = [task EXCEPT ![run.target] = Idle]
    /\ UNCHANGED <<builds, lastIndex, atEntry, calls, fn, arg, ret>>

(***************************************************************************)
(* Cepy.pack                                                               *)
(***************************************************************************)
\* The options objects that the callers of Cepy.pack pass.
PackOptions == {NoOptions, [debug |-> Bool(TRUE)], [decorate |-> Bool(FALSE)], [decorate |-> Bool(FALSE), debug |-> Bool(TRUE)]}

CepyPack(options) ==
    /\ Quiescent
    /\ calls < MaxCalls
    /\ calls' = calls + 1
    /\ LET given == defaults(PackDefaults, options)
       IN run' = [NoRun EXCEPT !.op = "pack", !.phase = "prepare", !.options = options,
                                !.decorate = ToBoolean(given.decorate), !.debug = ToBoolean(given.debug)]
    /\ UNCHANGED <<builds, lastIndex, task, atEntry, fn, arg, ret>>

\* staging folder emptied and created, certificate found or generated
PackPrepare ==
    /\ run.op = "pack"
    /\ run.phase = "prepare"
    /\ \E ok \in BOOLEAN : run' = IF ok THEN [run EXCEPT !.phase = "decorate"] ELSE [run EXCEPT !.phase = "cleanup", !.failed = TRUE]
    /\ UNCHANGED <<builds, lastIndex, task, atEntry, calls, fn, arg, ret>>

\* if (options.decorate) Promise.map(this._builds, build => build.decorate(options.debug))
PackDecorateAll ==
    /\ run.op = "pack"
    /\ run.phase = "decorate"
    /\ IF run.decorate
       THEN /\ Becomes(CallBuildsFrom(Current, 1, "decorate", run.debug))
            /\ run' = [run EXCEPT !.phase = "decorating"]
       ELSE /\ run' = [run EXCEPT !.phase = "pack"]
            /\ UNCHANGED <<builds, lastIndex, task, atEntry>>
    /\ UNCHANGED <<calls, fn, arg, ret>>

\* the map of decorate promises fulfils
PackDecorated ==
    /\ run.op = "pack"
    /\ run.phase = "decorating"
    /\ \A b \in BuildIds : task[b].pc = "done"
    /\ run' = [run EXCEPT !.phase = "pack"]
    /\ UNCHANGED <<builds, lastIndex, task, atEntry, calls, fn, arg, ret>>

\* Promise.map(this._builds, build => build.pack(staging, packaging))
PackPackAll ==
    /\ run.op = "pack"
    /\ run.phase = "pack"
    /\ Becomes(CallBuildsFrom(Current, 1, "pack", run.debug))
    /\ run' = [run EXCEPT !.phase = "packing"]
    /\ UNCHANGED <<calls, fn, arg, ret>>

\* A map of pack promises that fulfils with the first promise that does.
PackPacked_any ==
    /\ run.op = "pack"
    /\ run.phase = "packing"
    /\ \E b \in BuildIds : task[b].pc = "done"
    /\ run' = [run EXCEPT !.phase = "finish"]
    /\ UNCHANGED <<builds, lastIndex, task, atEntry, calls, fn, arg, ret>>

\* the map of pack promises fulfils
PackPacked ==
    /\ run.op = "pack"
    /\ run.phase = "packing"
    /\ \A b \in BuildIds : task[b].pc = "done"
    /\ run' = [run EXCEPT !.phase = "finish"]
    /\ UNCHANGED <<builds, lastIndex, task, atEntry, calls, fn, arg, ret>>

\* A chain that goes on to its next step when a map rejects.
PackMapRejected_goeson ==
    /\ run.op = "pack"
    /\ run.phase \in {"decorating", "packing"}
    /\ \E b \in BuildIds : task[b].pc = "rejected"
    /\ run' = [run EXCEPT !.phase = "finish"]
    /\ UNCHANGED <<builds, lastIndex, task, atEntry, calls, fn, arg, ret>>

\* a map rejects as soon as one of its promises rejects; the others go on
PackMapRejected ==
    /\ run.op = "pack"
    /\ run.phase \in {"decorating", "packing"}
    /\ \E b \in BuildIds : task[b].pc = "rejected"
    /\ run' = [run EXCEPT !.phase = "cleanup", !.failed = TRUE]
    /\ UNCHANGED <<builds, lastIndex, task, atEntry, calls, fn, arg, ret>>

\* generateMXI, the copy of the additional files, the final zxp.createPackage;
\* generateMXI reads builds[0].baseName and throws when there is no build
PackFinish ==
    /\ run.op = "pack"
    /\ run.phase = "finish"
    /\ \E ok \in BOOLEAN : run' = [run EXCEPT !.phase = "cleanup", !.failed = ~(ok /\ Len(builds) > 0)]
    /\ UNCHANGED <<builds, lastIndex, task, atEntry, calls, fn, arg, ret>>

\* .finally: rimraf(staging)
PackCleanup ==
    /\ run.op = "pack"
    /\ run.phase = "cleanup"
    /\ run' = [run EXCEPT !.phase = "settled"]
    /\ UNCHANGED <<builds, lastIndex, task, atEntry, calls, fn, arg, ret>>

\* the promise of pack has settled and no chain is in flight any more
PackSettle ==
    /\ run.op = "pack"
    /\ run.phase = "settled"
    /\ \A b \in BuildIds : Settled(b)
    /\ run' = [NoRun EXCEPT !.failed = run.failed]
    /\ task' = [b \in BuildIds |-> Idle]
    /\ UNCHANGED <<builds, lastIndex, atEntry, calls, fn, arg, ret>>

Next ==
    \/ \E b \in BuildIds : StatDone(b)
    \/ \E b \in BuildIds : Transform(b)
    \/ \E b \in BuildIds : DotDebug(b)
    \/ \E b \in BuildIds : Manifest(b)
    \/ \E b \in BuildIds : Zxp(b)
    \/ \E b \in BuildIds : Detect(b)
    \/ \E b \in BuildIds : Install(b)
    \/ \E target \in 0..NBuilds, debug \in BOOLEAN : CepyDecorate(target, debug)
    \/ DecorateSettle
    \/ \E target \in 0..NBuilds, options \in LaunchOptions : CepyLaunch(target, options)
    \/ LaunchDecorate
    \/ LaunchBuild
    \/ LaunchSettle
    \/ \E options \in PackOptions : CepyPack(options)
    \/ PackPrepare
    \/ PackDecorateAll
    \/ PackDecorated
    \/ PackPackAll
    \/ PackPacked
    \/ PackMapRejected
    \/ PackFinish
    \/ PackCleanup
    \/ PackSettle

Spec == Init /\ [][Next]_vars

(***************************************************************************)
(* A process that makes Cepy objects one after the other, from any of the  *)
(* build configurations, and decorates and packs them in release mode.     *)
(***************************************************************************)
InitValidation == \E bs \in AnyConfigurations : Fresh(bs)

NextValidation ==
    \/ NewCepy
    \/ \E b \in BuildIds : StatDone(b)
    \/ \E b \in BuildIds : Transform(b)
    \/ \E b \in BuildIds : Manifest(b)
    \/ \E b \in BuildIds : Zxp(b)
    \/ \E target \in 0..NBuilds : CepyDecorate(target, FALSE)
    \/ DecorateSettle
    \/ \E options \in {NoOptions, [decorate |-> Bool(FALSE)]} : CepyPack(options)
    \/ PackPrepare
    \/ PackDecorateAll
    \/ PackDecorated
    \/ PackPackAll
    \/ PackPacked
    \/ PackMapRejected
    \/ PackFinish
    \/ PackCleanup
    \/ PackSettle

SpecValidation == InitValidation /\ [][NextValidation]_vars

(***************************************************************************)
(* The pure functions, applied to every input of a bounded set.            *)
(***************************************************************************)
PureAlphabet == {"a", "B", "2", ".", "_", " "}
PureEntries == {Str(<<"b">>), Str(<<"B">>), Str(<<"a", "2">>), Str(<<"a">>), Str(<<>>), Null, Num}
PureInputs ==
    {RawStr(s) : s \in StringsUpTo(PureAlphabet, MaxStrLen)}
        \cup {RawArr(a) : a \in StringsUpTo(PureEntries, MaxArrLen)}
        \cup {RawOther, RawUndefined}

InitPure ==
    /\ builds = <<Build(1, ConfigExplicit)>>
    /\ lastIndex = [id |-> 0, version |-> 0]
    /\ task = <<Idle>>
    /\ run = NoRun
    /\ atEntry = builds
    /\ calls = 0
    /\ fn = "none"
    /\ arg \in PureInputs
    /\ ret = NoRet

\* new Build(name, config) with config.products = arg
ApplyParseProducts ==
    /\ fn = "none"
    /\ fn' = "parseProducts"
    /\ ret' = [NoRet EXCEPT !.products = Build(1, [ConfigExplicit EXCEPT !.products = arg]).products]
    /\ UNCHANGED <<builds, lastIndex, task, run, atEntry, calls, arg>>

\* new Build(name, config) with config.families = arg, then _initialize
ApplyParseFamilies ==
    /\ fn = "none"
    /\ fn' = "parseFamilies"
    /\ LET b == Build(1, [ConfigExplicit EXCEPT !.families = arg])
       IN ret' = [NoRet EXCEPT !.families = b.families, !.error = _initialize(b, [id |-> 0, version |-> 0]).error]
    /\ UNCHANGED <<builds, lastIndex, task, run, atEntry, calls, arg>>

\* the bundle id of the debug transform, for the bundle id arg
ApplyDebugId ==
    /\ fn = "none"
    /\ arg.t = "str"
    /\ fn' = "debugId"
    /\ ret' = [NoRet EXCEPT !.id = DebugId(Str(arg.s))]
    /\ UNCHANGED <<builds, lastIndex, task, run, atEntry, calls, arg>>

NextPure ==
    \/ ApplyParseProducts
    \/ ApplyParseFamilies
    \/ ApplyDebugId

SpecPure == InitPure /\ [][NextPure]_vars

(***************************************************************************)
(* The registry functions of lib/hosts.js, applied to every product key    *)
(* and every list of families of a bounded set.                            *)
(***************************************************************************)
\* A product key and a family name that the registry does not hold.
bridge == <<"b", "r", "i", "d", "g", "e">>
cs6 == <<"c", "s", "6">>

RegistryProductInputs == HostProducts(cc) \cup {bridge}
RegistryFamilyInputs == HostFamilies \cup {cs6}

InitRegistry ==
    /\ builds = <<>>
    /\ lastIndex = [id |-> 0, version |-> 0]
    /\ task = <<>>
    /\ run = NoRun
    /\ atEntry = <<>>
    /\ calls = 0
    /\ fn = "none"
    /\ arg = NoArg
    /\ ret = NoRet

ApplyGetProduct ==
    /\ fn = "none"
    /\ fn' = "getProduct"
    /\ \E product \in RegistryProductInputs, family \in RegistryFamilyInputs :
          /\ arg' = [product |-> product, family |-> family]
          /\ ret' = getProduct(product, family)
    /\ UNCHANGED <<builds, lastIndex, task, run, atEntry, calls>>

ApplyGetVersionRange ==
    /\ fn = "none"
    /\ fn' = "getVersionRange"
    /\ \E product \in RegistryProductInputs, families \in StringsUpTo(RegistryFamilyInputs, MaxArrLen) :
          /\ arg' = [product |-> product, families |-> families]
          /\ ret' = getVersionRange(product, families)
    /\ UNCHANGED <<builds, lastIndex, task, run, atEntry, calls>>

ApplyMapToFamilyName ==
    /\ fn = "none"
    /\ fn' = "mapToFamilyName"
    /\ \E product \in RegistryProductInputs :
          /\ arg' = [product |-> product]
          /\ ret' = mapToFamilyName(product)
    /\ UNCHANGED <<builds, lastIndex, task, run, atEntry, calls>>

NextRegistry ==
    \/ ApplyGetProduct
    \/ ApplyGetVersionRange
    \/ ApplyMapToFamilyName

SpecRegistry == InitRegistry /\ [][NextRegistry]_vars

(***************************************************************************)
(* The renderers of lib/template.js, applied to validated builds.          *)
(***************************************************************************)
RenderConfig(products, families) == [ConfigExplicit EXCEPT !.products = products, !.families = families]

\* An array of strings as it stands in a configuration.
StrArray(a) == RawArr(IF a = <<>> THEN <<>> ELSE [i \in 1..Len(a) |-> Str(a[i])])

ManifestProducts ==
    {StrArray(<<p>>) : p \in RegistryProductInputs} \cup {StrArray(<<aftereffects, photoshop>>), ConfigExplicit.products}

ManifestFamilies ==
    {RawStr(f) : f \in RegistryFamilyInputs}
        \cup {StrArray(a) : a \in StringsUpTo(HostFamilies, MaxArrLen) \ {<<>>}}
        \cup {StrArray(<<cc, cs6>>), ConfigBackFilled.families}

ManifestConfigs == {RenderConfig(p, f) : p \in ManifestProducts, f \in ManifestFamilies}

MxiProducts == {StrArray(<<photoshop>>), StrArray(<<aftereffects, photoshop>>)}

MxiFamilies ==
    {RawStr(cc), RawStr(cc2015), RawStr(cc2015_5),
     StrArray(<<cc2014>>), StrArray(<<cc2015, cc2014>>), StrArray(<<cc, cc2015_5>>), StrArray(<<cc2015_5>>)}

MxiConfigs == {RenderConfig(p, f) : p \in MxiProducts, f \in MxiFamilies}

\* The configurations of the builds of a package: one build of any of the
\* configurations, or several builds.
RenderConfigurations ==
    {<<c>> : c \in ManifestConfigs \cup MxiConfigs} \cup UNION {[1..n -> MxiConfigs] : n \in 2..NBuilds}

\* A build on which _initialize has succeeded.
Validated(b) == [InitializeChecks(b, [id |-> 0, version |-> 0]).build EXCEPT !.initialized = TRUE]

InitRender ==
    \E configs \in RenderConfigurations :
        /\ builds = [b \in 1..Len(configs) |-> Validated(Build(b, configs[b]))]
        /\ lastIndex = [id |-> 0, version |-> 0]
        /\ task = [b \in 1..Len(configs) |-> Idle]
        /\ run = NoRun
        /\ atEntry = builds
        /\ calls = 0
        /\ fn = "none"
        /\ arg = configs
        /\ ret = NoRet

\* template.generateBundleManifest(this.source, this) on build b
ApplyGenerateBundleManifest(b) ==
    /\ fn = "none"
    /\ fn' = "generateBundleManifest"
    /\ ret' = [build |-> b, manifest |-> generateBundleManifest(builds[b])]
    /\ UNCHANGED <<builds, lastIndex, task, run, atEntry, calls, arg>>

\* template.generateMXI(staging, this._builds, packaging)
ApplyGenerateMXI ==
    /\ fn = "none"
    /\ fn' = "generateMXI"
    /\ ret' = generateMXI(builds)
    /\ UNCHANGED <<builds, lastIndex, task, run, atEntry, calls, arg>>

NextRender ==
    \/ \E b \in BuildIds : ApplyGenerateBundleManifest(b)
    \/ ApplyGenerateMXI

SpecRender == InitRender /\ [][NextRender]_vars

(***************************************************************************)
(* Cepy.pack step by step, on a Cepy object whose packaging section is     *)
(* part of the state (arg): each .then of the chain is an action, and the  *)
(* commands that the run executes are recorded in run.effects.             *)
(***************************************************************************)
Packaging(output, staging, owner, file) == [output |-> output, staging |-> staging, certificate |-> [owner |-> owner, file |-> file]]

\* The packaging section of defaults/config.js, and the other ones the model draws from.
PackagingDefault == Packaging(Str(<<"o">>), Str(<<"s">>), Str(<<>>), Null)
PackagingConfigs ==
    {PackagingDefault,
     Packaging(Str(<<"o">>), Str(<<"s">>), Str(<<"x">>), Str(<<"c">>)),
     Packaging(Str(<<"o">>), Str(<<"s">>), Str(<<>>), Str(<<"c">>)),
     Packaging(Str(<<>>), Str(<<"s">>), Str(<<"x">>), Str(<<"c">>)),
     Packaging(Str(<<"o">>), Str(<<>>), Str(<<"x">>), Str(<<"c">>)),
     Packaging(Str(<<"o">>), Num, Str(<<"x">>), Str(<<"c">>))}

\* The builds of a Cepy object on which earlier calls have validated every build.
ValidatedConfigurations ==
    {[b \in 1..Len(bs) |-> Validated(bs[b])] : bs \in Configurations(ValidConfigs) \ {<<>>}}

\* A Cepy object as it is made, or one whose builds have all been validated,
\* the last of them last.
InitPack ==
    /\ \/ /\ builds \in LifecycleConfigurations
          /\ lastIndex = [id |-> 0, version |-> 0]
       \/ /\ builds \in ValidatedConfigurations
          /\ lastIndex = InitializeChecks([builds[Len(builds)] EXCEPT !.initialized = FALSE], [id |-> 0, version |-> 0]).lastIndex
    /\ task = [b \in 1..Len(builds) |-> Idle]
    /\ run = NoRun
    /\ atEntry = builds
    /\ calls = 0
    /\ fn = "none"
    /\ arg \in PackagingConfigs
    /\ ret = NoRet

\* A step of the chain of Cepy.pack is rejected: the chain goes to .finally.
PackFails(error) == run' = [run EXCEPT !.phase = "cleanup", !.failed = TRUE, !.error = error]

\* .try: the output file name and the staging folder path
PackValidate ==
    /\ run.op = "pack"
    /\ run.phase = "prepare"
    /\ IF ~IsNonEmptyString(arg.output) THEN PackFails("output")
       ELSE IF ~IsNonEmptyString(arg.staging) THEN PackFails("staging")
       ELSE run' = [run EXCEPT !.phase = "clean"]
    /\ UNCHANGED <<builds, lastIndex, task, atEntry, calls, fn, arg, ret>>

\* rimraf(staging/*), then fs_mkdir(staging)
PackClean ==
    /\ run.op = "pack"
    /\ run.phase = "clean"
    /\ \E ok \in BOOLEAN : IF ok THEN run' = [run EXCEPT !.phase = "mkdir"] ELSE PackFails("clean")
    /\ UNCHANGED <<builds, lastIndex, task, atEntry, calls, fn, arg, ret>>

PackMkdir ==
    /\ run.op = "pack"
    /\ run.phase = "mkdir"
    /\ \E ok \in BOOLEAN : IF ok THEN run' = [run EXCEPT !.phase = "certstat"] ELSE PackFails("mkdir")
    /\ UNCHANGED <<builds, lastIndex, task, atEntry, calls, fn, arg, ret>>

\* fs_stat(certificate.file): the file is there, or .catch calls generateCertificate
PackCertStat ==
    /\ run.op = "pack"
    /\ run.phase = "certstat"
    /\ \E found \in BOOLEAN :
          run' = [run EXCEPT !.phase = IF found /\ arg.certificate.file.t = "str" THEN "decorate" ELSE "certgen"]
    /\ UNCHANGED <<builds, lastIndex, task, atEntry, calls, fn, arg, ret>>

\* zxp.generateCertificate(certificate), the executor of its promise: an
\* invalid owner rejects the promise and the executor goes on;
\* path.resolve(certificate.file) throws for a file that is no string; then
\* exec runs the self-sign command.
generateCertificate(certificate) ==
    [rejected |-> ~IsNonEmptyString(certificate.owner) \/ certificate.file.t # "str",
     exec |-> certificate.file.t = "str"]

PackCertGenerate ==
    /\ run.op = "pack"
    /\ run.phase = "certgen"
    /\ LET r == generateCertificate(arg.certificate)
       IN run' = [run EXCEPT !.effects.selfSign = r.exec,
                             !.phase = IF r.rejected THEN "cleanup" ELSE "certexec",
                             !.failed = r.rejected,
                             !.error = IF r.rejected THEN "certificate" ELSE "none"]
    /\ UNCHANGED <<builds, lastIndex, task, atEntry, calls, fn, arg, ret>>

\* the callback of exec resolves or rejects the promise of generateCertificate
PackCertExec ==
    /\ run.op = "pack"
    /\ run.phase = "certexec"
    /\ \E ok \in BOOLEAN : IF ok THEN run' = [run EXCEPT !.phase = "decorate"] ELSE PackFails("certificate")
    /\ UNCHANGED <<builds, lastIndex, task, atEntry, calls, fn, arg, ret>>

\* template.generateMXI(staging, this._builds, packaging): the lists are made
\* in the call, then the template is read and the file written
PackMXI ==
    /\ run.op = "pack"
    /\ run.phase = "finish"
    /\ IF generateMXI(builds).error # "none" THEN PackFails("mxi")
       ELSE \E ok \in BOOLEAN : IF ok THEN run' = [run EXCEPT !.phase = "copy"] ELSE PackFails("mxi")
    /\ UNCHANGED <<builds, lastIndex, task, atEntry, calls, fn, arg, ret>>

\* the additional files are copied to the staging folder
PackCopy ==
    /\ run.op = "pack"
    /\ run.phase = "copy"
    /\ \E ok \in BOOLEAN : IF ok THEN run' = [run EXCEPT !.phase = "sign"] ELSE PackFails("copy")
    /\ UNCHANGED <<builds, lastIndex, task, atEntry, calls, fn, arg, ret>>

\* zxp.createPackage(staging, output, packaging) is called
PackSign ==
    /\ run.op = "pack"
    /\ run.phase = "sign"
    /\ run' = [run EXCEPT !.phase = "signing", !.effects.sign = "invoked"]
    /\ UNCHANGED <<builds, lastIndex, task, atEntry, calls, fn, arg, ret>>

\* ... and settles
PackSigned ==
    /\ run.op = "pack"
    /\ run.phase = "signing"
    /\ \E ok \in BOOLEAN :
          IF ok THEN run' = [run EXCEPT !.phase = "cleanup", !.effects.sign = "done"]
          ELSE run' = [run EXCEPT !.phase = "cleanup", !.failed = TRUE, !.error = "sign", !.effects.sign = "failed"]
    /\ UNCHANGED <<builds, lastIndex, task, atEntry, calls, fn, arg, ret>>

\* A .finally that removes the staging folder of successful runs only.
PackRemoveStaging_onsuccess ==
    /\ run.op = "pack"
    /\ run.phase = "cleanup"
    /\ run' = [run EXCEPT !.phase = "settled", !.effects.removed = Truthy(arg.staging) /\ ~run.failed]
    /\ UNCHANGED <<builds, lastIndex, task, atEntry, calls, fn, arg, ret>>

\* .finally: if (this._packaging.staging) rimraf(this._packaging.staging)
PackRemoveStaging ==
    /\ run.op = "pack"
    /\ run.phase = "cleanup"
    /\ run' = [run EXCEPT !.phase = "settled", !.effects.removed = Truthy(arg.staging)]
    /\ UNCHANGED <<builds, lastIndex, task, atEntry, calls, fn, arg, ret>>

NextPack ==
    \/ \E options \in PackOptions : CepyPack(options)
    \/ PackValidate
    \/ PackClean
    \/ PackMkdir
    \/ PackCertStat
    \/ PackCertGenerate
    \/ PackCertExec
    \/ PackDecorateAll
    \/ \E b \in BuildIds : StatDone(b)
    \/ \E b \in BuildIds : Transform(b)
    \/ \E b \in BuildIds : Manifest(b)
    \/ PackDecorated
    \/ PackPackAll
    \/ \E b \in BuildIds : Zxp(b)
    \/ PackPacked
    \/ PackMapRejected
    \/ PackMXI
    \/ PackCopy
    \/ PackSign
    \/ PackSigned
    \/ PackRemoveStaging
    \/ PackSettle

SpecPack == InitPack /\ [][NextPack]_vars

\* The callbacks of the chain of Cepy.pack whose enabling condition is the
\* phase of the run alone.
PackChain ==
    \/ PackValidate
    \/ PackClean
    \/ PackMkdir
    \/ PackCertStat
    \/ PackCertGenerate
    \/ PackCertExec
    \/ PackDecorated
    \/ PackPacked
    \/ PackMapRejected
    \/ PackCopy
    \/ PackSign
    \/ PackSigned
    \/ PackRemoveStaging

\* The steps of the per-build tasks started by the two Promise.map calls.
PackTasks == \E b \in BuildIds : StatDone(b) \/ Transform(b) \/ Manifest(b) \/ Zxp(b)

\* The run leaves a phase in which the chain has a callback ready.
\* PackDecorateAll, PackPackAll and PackMXI are enabled exactly when the run
\* is in their phase and each of their steps leaves it, so weak fairness of
\* this action on run is weak fairness of theirs.
Leaves(phase, next) ==
    /\ run.op = "pack"
    /\ run.phase = phase
    /\ run' = [run EXCEPT !.phase = next]

\* The event loop runs every callback that is ready, and the operations of
\* the file system and the commands that the run waits for come to an end.
\* A caller is never obliged to call pack again.
SpecPackLive ==
    /\ SpecPack
    /\ WF_vars(PackChain)
    /\ WF_vars(PackTasks)
    /\ WF_run(Leaves("decorate", "decorating"))
    /\ WF_run(Leaves("pack", "packing"))
    /\ WF_run(Leaves("finish", "copy"))

(***************************************************************************)
(* Build.launch called on the builds themselves, with and without a        *)
(* product and a family.                                                   *)
(***************************************************************************)
RequestedProducts == {Null, Str(<<>>), Str(photoshop), Str(<<"I", "l", "l", "u", "s", "t", "r", "a", "t", "o", "r">>), Str(flash)}
RequestedFamilies == {Null, Str(<<"C", "C", "2", "0", "1", "4">>), Str(cc), Str(<<"c", "s", "6">>)}

\* build.launch(product, family)
BuildLaunch(b, product, family) ==
    /\ Quiescent
    /\ calls < MaxCalls
    /\ calls' = calls + 1
    /\ Becomes(CallBuild(Current, b, "launch", FALSE))
    /\ run' = [NoRun EXCEPT !.op = "build.launch", !.phase = "launching", !.target = b, !.product = product, !.family = family]
    /\ UNCHANGED <<fn, arg, ret>>

BuildLaunchSettle ==
    /\ run.op = "build.launch"
    /\ task[run.target].pc \in {"done", "rejected"}
    /\ run' = [NoRun EXCEPT !.failed = (task[run.target].pc = "rejected"), !.error = task[run.target].error]
    /\ task' = [task EXCEPT ![run.target] = Idle]
    /\ UNCHANGED <<builds, lastIndex, atEntry, calls, fn, arg, ret>>

NextLaunch ==
    \/ \E b \in BuildIds, product \in RequestedProducts, family \in RequestedFamilies : BuildLaunch(b, product, family)
    \/ \E b \in BuildIds : StatDone(b)
    \/ \E b \in BuildIds : Detect(b)
    \/ \E b \in BuildIds : Install(b)
    \/ BuildLaunchSettle

SpecLaunch == Init /\ [][NextLaunch]_vars

(***************************************************************************)
(* The per-extension part of template.generateBundleManifest: the mapper   *)
(* of Promise.map is called on the extensions in turn, each call adds its  *)
(* <Extension> entry and starts reading the template of the extension;     *)
(* the reads complete in any order, and each completion adds the rendered  *)
(* fragment.  task holds the state of the read of each extension and ret   *)
(* the two lists.                                                          *)
(***************************************************************************)
\* `<Extension Id="${extension.id}" Version="${extension.version}" />`
ExtensionEntry(extension) == [Id |-> extension.id, Version |-> extension.version]

\* _.template(template, templateOptions)(extension)
ExtensionManifest(extension) == [rendered |-> extension]

NoLists == [extensionList |-> <<>>, dispatchInfoList |-> <<>>, data |-> <<>>]

ManifestExtensions == UNION {[1..n -> {ExtPanel, ExtHidden, ExtBare}] : n \in 1..MaxArrLen}

ManifestMapConfigs == {[ConfigExplicit EXCEPT !.extensions = Extensions(a)] : a \in ManifestExtensions}

InitManifest ==
    \E config \in ManifestMapConfigs :
        /\ InitializeChecks(Build(1, config), [id |-> 0, version |-> 0]).error = "none"
        /\ builds = <<Validated(Build(1, config))>>
        /\ lastIndex = [id |-> 0, version |-> 0]
        /\ task = [i \in 1..Len(config.extensions.a) |-> [pc |-> "idle"]]
        /\ run = NoRun
        /\ atEntry = builds
        /\ calls = 0
        /\ fn = "none"
        /\ arg = config
        /\ ret = NoLists

\* Promise.map(build.extensions, extension => ...): the synchronous part of
\* the mapper, for every extension in turn.
MapExtensions ==
    /\ fn = "none"
    /\ fn' = "map"
    /\ ret' = [ret EXCEPT !.extensionList = [i \in 1..Len(builds[1].extensions) |-> ExtensionEntry(builds[1].extensions[i])]]
    /\ task' = [i \in 1..Len(task) |-> [pc |-> "reading"]]
    /\ UNCHANGED <<builds, lastIndex, run, atEntry, calls, arg>>

\* fs_readFile(templatePath, 'utf8') of extension i completes: .then renders
\* and pushes the fragment, .catch rejects the promise of the extension.
ReadDone(i) ==
    /\ task[i].pc = "reading"
    /\ \E ok \in BOOLEAN :
          IF ok
          THEN /\ task' = [task EXCEPT ![i].pc = "read"]
               /\ ret' = [ret EXCEPT !.dispatchInfoList = Append(@, ExtensionManifest(builds[1].extensions[i]))]
          ELSE /\ task' = [task EXCEPT ![i].pc = "failed"]
               /\ UNCHANGED ret
    /\ UNCHANGED <<builds, lastIndex, run, atEntry, calls, fn, arg>>

\* The second .then of generateBundleManifest: the data handed to the
\* template of the bundle.
RenderBundle ==
    /\ fn = "map"
    /\ \A i \in 1..Len(task) : task[i].pc = "read"
    /\ fn' = "rendered"
    /\ ret' = [ret EXCEPT !.data = [extensionList |-> ret.extensionList, dispatchInfoList |-> ret.dispatchInfoList]]
    /\ UNCHANGED <<builds, lastIndex, task, run, atEntry, calls, arg>>

\* Promise.map rejects with the first rejection; the other reads go on.
MapRejected ==
    /\ fn = "map"
    /\ \E i \in 1..Len(task) : task[i].pc = "failed"
    /\ fn' = "rejected"
    /\ UNCHANGED <<builds, lastIndex, task, run, atEntry, calls, arg, ret>>

NextManifest ==
    \/ MapExtensions
    \/ \E i \in 1..Len(task) : ReadDone(i)
    \/ RenderBundle
    \/ MapRejected

SpecManifest == InitManifest /\ [][NextManifest]_vars

(***************************************************************************)
(* Properties.                                                             *)
(***************************************************************************)
IdentityFields == {"id", "version", "name", "author"}

\* The bundle of a build as validation sees it: defaults, then the back-fill.
ViewedBundle(b) == BackFill(BundleDefaults(b.bundle), ExtensionDefaults(b.extensions[1]))

\* The invariants of a build: what _initialize is to accept.
Valid(b) ==
    /\ Len(b.extensions) > 0
    /\ LET bundle == ViewedBundle(b)
       IN /\ bundle.id.t = "str" /\ bundle.id.s # <<>> /\ \A i \in 1..Len(bundle.id.s) : IdChar(bundle.id.s[i])
          /\ bundle.version.t = "str" /\ bundle.version.s # <<>> /\ bundleVersionRegEx(bundle.version.s)
          /\ bundle.name.t = "str" /\ bundle.name.s # <<>>
          /\ bundle.author.t = "str" /\ bundle.author.s # <<>>
    /\ b.products # <<>>
    /\ IF b.families.t = "str" THEN b.families.s # <<>> ELSE b.families.a # <<>>
    /\ b.source

\* A step in which decorate, pack or launch is called on build b.
Called(b) == task[b].pc \in {"idle", "done"} /\ task'[b].pc \notin {"idle", "done"}

\* C1: every build that meets the invariants of a build is validated
\* successfully, whatever builds were validated before it in the process: no
\* call of _initialize on such a build is rejected with a validation error.
C1_ValidBuildsAccepted ==
    \A b \in BuildIds :
        (task[b].pc = "rejected" /\ task[b].error \in ValidationErrors) => ~Valid(atEntry[b])

\* C2: a build that breaks an invariant of a build is never initialized and
\* no chain called on it gets past _initialize; it waits for fs_stat only
\* when the source folder is what is missing.
C2_InvalidBuildsRejected ==
    \A b \in BuildIds :
        ~Valid(atEntry[b]) =>
            /\ ~builds[b].initialized
            /\ task[b].pc \in {"idle", "rejected", "stat"}
            /\ task[b].pc = "rejected" => task[b].error \in ValidationErrors
            /\ task[b].pc = "stat" => ~builds[b].source

\* A build whose bundle id holds a space has been rejected for its id.
C2_Witness ==
    \E b \in BuildIds :
        /\ task[b].pc = "rejected"
        /\ task[b].error = "id"
        /\ \E i \in 1..Len(atEntry[b].bundle.id.s) : atEntry[b].bundle.id.s[i] = " "
        /\ ~builds[b].initialized

\* C3: a call of decorate, pack or launch on an initialized build leaves the
\* Build object as it is, runs no pattern test and goes straight to the step
\* that follows _initialize, without an error.
C3_InitializeIdempotent ==
    [][/\ \A b \in BuildIds :
            (Called(b) /\ builds[b].initialized) =>
                /\ builds'[b] = builds[b]
                /\ task'[b].pc = FirstStep(task'[b].chain)
                /\ task'[b].error = "none"
       /\ (\A b \in BuildIds : Called(b) => builds[b].initialized) => lastIndex' = lastIndex]_vars

\* A build that was initialized, and debug-transformed, when a call entered
\* _initialize on it, and is past _initialize again.
C3_Witness ==
    \E b \in BuildIds :
        /\ atEntry[b].initialized
        /\ EndsWith(atEntry[b].bundle.id.s, DebugIdSuffix)
        /\ builds[b] = atEntry[b]
        /\ task[b].pc \in {"transform", "zxp", "detect"}

\* C4: a call of _initialize that fails leaves the Build object as it was
\* when the call was made.
C4_FailedValidationAppliesNothing ==
    \A b \in BuildIds :
        (task[b].pc = "rejected" /\ task[b].error \in ValidationErrors) =>
            /\ builds[b].bundle = atEntry[b].bundle
            /\ builds[b].extensions = atEntry[b].extensions
            /\ builds[b].baseName = atEntry[b].baseName
            /\ builds[b].initialized = atEntry[b].initialized

\* C5: no id of a build carries the ".debug" suffix twice and no name
\* carries " (debug)" twice.
C5_DebugTransformOnce ==
    \A b \in BuildIds :
        /\ ~EndsWith(builds[b].bundle.id.s, DebugIdSuffix \o DebugIdSuffix)
        /\ ~EndsWith(builds[b].bundle.name.s, DebugNameSuffix \o DebugNameSuffix)
        /\ \A i \in 1..Len(builds[b].extensions) :
              /\ ~EndsWith(builds[b].extensions[i].id.s, DebugIdSuffix \o DebugIdSuffix)
              /\ ~EndsWith(builds[b].extensions[i].name.s, DebugNameSuffix \o DebugNameSuffix)

\* What the debug branch is to make of the extension e.
Suffixed(e, d) ==
    /\ d.id = Str(e.id.s \o <<".", "d", "e", "b", "u", "g">>)
    /\ d.name = IF e.name.t = "str" /\ e.name.s # <<>>
                THEN Str(e.name.s \o <<" ", "(", "d", "e", "b", "u", "g", ")">>)
                ELSE e.name
    /\ d.version = e.version
    /\ d.author = e.author

\* C6: the transform step of Build.decorate in debug mode suffixes the
\* bundle id, the bundle name, every extension id and every non-blank
\* extension name, and leaves a blank extension name and version, author,
\* debug port, products, families, baseName, outputFile, source and
\* initialized as they are; in release mode it leaves the whole Build object
\* unchanged, and so do the steps that write the .debug file and the manifest.
C6_DecorateFrame ==
    [][\A b \in BuildIds :
          /\ (task[b].pc = "transform" /\ task'[b].pc # "transform" /\ task[b].debug) =>
                /\ builds'[b].bundle.id = Str(builds[b].bundle.id.s \o <<".", "d", "e", "b", "u", "g">>)
                /\ builds'[b].bundle.name = Str(builds[b].bundle.name.s \o <<" ", "(", "d", "e", "b", "u", "g", ")">>)
                /\ builds'[b].bundle.version = builds[b].bundle.version
                /\ builds'[b].bundle.author = builds[b].bundle.author
                /\ builds'[b].bundle.port = builds[b].bundle.port
                /\ Len(builds'[b].extensions) = Len(builds[b].extensions)
                /\ \A i \in 1..Len(builds[b].extensions) : Suffixed(builds[b].extensions[i], builds'[b].extensions[i])
                /\ builds'[b].products = builds[b].products
                /\ builds'[b].families = builds[b].families
                /\ builds'[b].baseName = builds[b].baseName
                /\ builds'[b].outputFile = builds[b].outputFile
                /\ builds'[b].source = builds[b].source
                /\ builds'[b].initialized = builds[b].initialized
          /\ (task[b].pc = "transform" /\ task'[b].pc # "transform" /\ ~task[b].debug) => builds'[b] = builds[b]
          /\ (task[b].pc \in {"dotdebug", "manifest"} /\ task'[b].pc # task[b].pc) => builds'[b] = builds[b]]_vars

\* The debug transform has run on a build that has a hidden extension: the
\* ids carry the suffix, the blank name is still blank.
C6_Witness ==
    \E b \in BuildIds :
        /\ task[b].pc \in {"dotdebug", "manifest", "done"}
        /\ task[b].chain = "decorate"
        /\ task[b].debug
        /\ builds[b].bundle.id = Str(atEntry[b].bundle.id.s \o DebugIdSuffix)
        /\ \E i \in 1..Len(builds[b].extensions) :
              /\ builds[b].extensions[i].name = Str(<<>>)
              /\ EndsWith(builds[b].extensions[i].id.s, DebugIdSuffix)
        /\ \E i \in 1..Len(builds[b].extensions) : EndsWith(builds[b].extensions[i].name.s, DebugNameSuffix)

\* C7: the id the debug transform makes of a bundle id that matches
\* ^[A-Za-z0-9._\-]+$ matches that pattern too.
C7_SuffixKeepsIdValid ==
    (fn = "debugId" /\ bundleIdRegEx(arg.s)) =>
        /\ bundleIdRegEx(ret.id)
        /\ Len(ret.id) = Len(arg.s) + 6
        /\ SubSeq(ret.id, 1, Len(arg.s)) = arg.s

\* The transform has been applied to an id that matches the pattern.
C7_Witness == fn = "debugId" /\ bundleIdRegEx(arg.s) /\ Len(arg.s) = MaxStrLen

\* The field k of the first extension of a build, once the extension defaults are in.
FirstExtensionField(b, k) == ExtensionDefaults(b.extensions[1])[k]

\* C8: once _initialize has run its back-fill on a build, each of the bundle
\* fields id, version, name and author holds its configured value when that
\* value is a non-empty string; otherwise it holds the value of the field of
\* the first extension, or is still not a non-empty string when the first
\* extension has no such field.
C8_BackFill ==
    \A b \in BuildIds :
        (task[b].pc # "idle" /\ atEntry[b].extensions # <<>> /\ ~atEntry[b].initialized) =>
            \A k \in IdentityFields :
                IF IsNonEmptyString(atEntry[b].bundle[k])
                THEN builds[b].bundle[k] = atEntry[b].bundle[k]
                ELSE IF FirstExtensionField(atEntry[b], k).t # "undef"
                     THEN builds[b].bundle[k] = FirstExtensionField(atEntry[b], k)
                     ELSE ~IsNonEmptyString(builds[b].bundle[k])

\* _initialize has run on a build whose blank id came from the first
\* extension, whose configured name was kept though the first extension has
\* another one, and whose blank author was not taken from the second extension.
C8_Witness ==
    \E b \in BuildIds :
        /\ task[b].pc = "rejected"
        /\ task[b].error = "author"
        /\ atEntry[b].bundle.id = Str(<<>>)
        /\ builds[b].bundle.id = atEntry[b].extensions[1].id
        /\ IsNonEmptyString(builds[b].bundle.id)
        /\ IsNonEmptyString(atEntry[b].bundle.name)
        /\ builds[b].bundle.name # atEntry[b].extensions[1].name
        /\ Len(atEntry[b].extensions) > 1
        /\ IsNonEmptyString(atEntry[b].extensions[2].author)

\* C9: the products of a build are non-empty lower-cased strings and no
\* product key occurs twice.
C9_ProductsAreASet ==
    fn = "parseProducts" =>
        /\ \A i \in 1..Len(ret.products) : ret.products[i] # <<>> /\ toLowerCase(ret.products[i]) = ret.products[i]
        /\ \A i, j \in 1..Len(ret.products) : ret.products[i] = ret.products[j] => i = j

\* The number of entries of an array that lower-case to the string x.
Occurrences(a, x) == Cardinality({i \in 1..Len(a) : a[i].t = "str" /\ a[i].s # <<>> /\ toLowerCase(a[i].s) = x})

\* C10: a string gives the string lower-cased; an array gives an array that
\* holds the lower-cased non-blank string entries of the input, each as often
\* as the input does, in ascending order; anything else gives the empty
\* array, and validation rejects a build whose families are empty.
C10_FamiliesKeepMode ==
    fn = "parseFamilies" =>
        /\ arg.t = "str" =>
              /\ ret.families.t = "str"
              /\ Len(ret.families.s) = Len(arg.s)
              /\ \A i \in 1..Len(arg.s) : ret.families.s[i] = LowerChar(arg.s[i])
        /\ arg.t = "arr" =>
              /\ ret.families.t = "arr"
              /\ \A i \in 1..Len(ret.families.a) : Occurrences(arg.a, ret.families.a[i]) = Cardinality({j \in 1..Len(ret.families.a) : ret.families.a[j] = ret.families.a[i]})
              /\ \A i \in 1..Len(arg.a) : Occurrences(arg.a, toLowerCase(arg.a[i].s)) > 0 => \E j \in 1..Len(ret.families.a) : ret.families.a[j] = toLowerCase(arg.a[i].s)
              /\ \A i \in 1..(Len(ret.families.a) - 1) : ~StrLess(ret.families.a[i + 1], ret.families.a[i])
        /\ arg.t \notin {"str", "arr"} => ret.families = RawArr(<<>>)
        /\ (ret.families.t = "arr" /\ ret.families.a = <<>>) => ret.error = "families"

\* An array whose entries are out of order, mixed in case and partly blank
\* has been normalized.
C10_Witness ==
    /\ fn = "parseFamilies"
    /\ arg = RawArr(<<Str(<<"b">>), Null, Str(<<"a", "2">>)>>)
    /\ ret.families.a = <<<<"a", "2">>, <<"b">>>>

\* The families of the registry from the earliest to the latest.
Chronology == <<cc, cc2014, cc2015, cc2015_5>>
Epoch(family) == CHOOSE i \in 1..Len(Chronology) : Chronology[i] = family

\* A call of getVersionRange on a product and families that the registry holds.
Resolvable(product, families) ==
    \A i \in 1..Len(families) : families[i] \in HostFamilies /\ product \in HostProducts(families[i])

\* C11: for a product key and a non-empty list of families of the registry,
\* in any order, getVersionRange returns as min the smallest version.min and
\* as max the largest version.max of the records of the product in the listed
\* families, and min <= max.
C11_RangeIsMinAndMax ==
    (fn = "getVersionRange" /\ arg.families # <<>> /\ Resolvable(arg.product, arg.families)) =>
        /\ ret.error = "none"
        /\ ret.min.t = "num" /\ ret.max.t = "num"
        /\ \E i \in 1..Len(arg.families) : HOSTS[arg.families[i]][arg.product].version.min = ret.min.v
        /\ \A i \in 1..Len(arg.families) : HOSTS[arg.families[i]][arg.product].version.min >= ret.min.v
        /\ \E i \in 1..Len(arg.families) : HOSTS[arg.families[i]][arg.product].version.max = ret.max.v
        /\ \A i \in 1..Len(arg.families) : HOSTS[arg.families[i]][arg.product].version.max <= ret.max.v
        /\ ret.min.v <= ret.max.v

\* The range of photoshop over three families that are listed out of order.
C11_Witness ==
    /\ fn = "getVersionRange"
    /\ arg = [product |-> photoshop, families |-> <<cc2015, cc, cc2014>>]
    /\ ret.min = Tenths(140)
    /\ ret.max = Tenths(169)

\* The error of a lookup: the family is looked at first.
LookupError(product, family) ==
    IF family \notin HostFamilies THEN "family"
    ELSE IF product \notin HostProducts(family) THEN "product"
    ELSE "none"

\* C12: getProduct fails with the unknown-family error when the family is not
\* in the registry, with the unknown-product error when the family is but the
\* product is not, and returns the record otherwise; getVersionRange fails
\* with the error of the first listed family that cannot be resolved and
\* returns no range then.
C12_LookupErrors ==
    /\ fn = "getProduct" =>
          /\ ret.error = LookupError(arg.product, arg.family)
          /\ ret.error = "none" => ret.host = HOSTS[arg.family][arg.product]
    /\ (fn = "getVersionRange" /\ ~Resolvable(arg.product, arg.families)) =>
          /\ ret.error \in {"family", "product"}
          /\ \E i \in 1..Len(arg.families) :
                /\ ret.error = LookupError(arg.product, arg.families[i])
                /\ \A j \in 1..(i - 1) : LookupError(arg.product, arg.families[j]) = "none"
          /\ ret.min.t = "undef" /\ ret.max.t = "undef"

\* getVersionRange has failed on a list whose second family is unknown
\* and whose other families the registry holds.
C12_Witness ==
    /\ fn = "getVersionRange"
    /\ arg = [product |-> photoshop, families |-> <<cc, cs6, cc2014>>]
    /\ ret.error = "family"

\* C15: the range of a product over two families of the registry, the
\* earlier one listed first, contains the version range of the product in
\* every family of the registry that lies between the two.
C15_RangeCoversFamiliesBetween ==
    (fn = "getVersionRange" /\ Len(arg.families) = 2 /\ Resolvable(arg.product, arg.families)
        /\ Epoch(arg.families[1]) < Epoch(arg.families[2])) =>
        \A m \in HostFamilies :
            (Epoch(arg.families[1]) <= Epoch(m) /\ Epoch(m) <= Epoch(arg.families[2])) =>
                /\ ret.min.v <= HOSTS[m][arg.product].version.min
                /\ HOSTS[m][arg.product].version.max <= ret.max.v

\* The range of aftereffects from cc to cc2015.5, with two families in between.
C15_Witness ==
    /\ fn = "getVersionRange"
    /\ arg = [product |-> aftereffects, families |-> <<cc, cc2015_5>>]
    /\ ret.min = Tenths(120)
    /\ ret.max = Tenths(139)

\* The comma list X,X32,X64 of a name X.
AliasList(x) == x \o <<",">> \o x \o <<"3", "2">> \o <<",">> \o x \o <<"6", "4">>

AliasedProducts == {illustrator, incopy, indesign, photoshop}

\* C20, as stated: for the four aliased product keys mapToFamilyName returns
\* the comma list, and for every other product key of the registry it returns
\* the display name (name) of the product.
C20_DisplayNameReturned ==
    (fn = "mapToFamilyName" /\ \E f \in HostFamilies : arg.product \in HostProducts(f)) =>
        /\ ret.error = "none"
        /\ ret.text = IF arg.product \in AliasedProducts
                      THEN AliasList(HOSTS[cc][arg.product].name)
                      ELSE HOSTS[cc][arg.product].name

\* C20, amended: for the four aliased product keys mapToFamilyName returns
\* the comma list X,X32,X64 of the family name X, for every other product key
\* that a family of the registry defines it returns the family name
\* (familyname) of the product unchanged, and it fails for no such key.
C20_FamilyNameReturned ==
    (fn = "mapToFamilyName" /\ \E f \in HostFamilies : arg.product \in HostProducts(f)) =>
        /\ ret.error = "none"
        /\ ret.text = IF arg.product \in AliasedProducts
                      THEN AliasList(HOSTS[cc][arg.product].familyname)
                      ELSE HOSTS[cc][arg.product].familyname
        /\ (\E i \in 1..Len(ret.text) : ret.text[i] = ",") <=> arg.product \in AliasedProducts

\* mapToFamilyName has been applied to a key that is not aliased and whose
\* family name is not its display name.
C20_Witness ==
    /\ fn = "mapToFamilyName"
    /\ arg.product = aftereffects
    /\ ret.text = <<"A", "f", "t", "e", "r", "E", "f", "f", "e", "c", "t", "s">>
    /\ HOSTS[cc][aftereffects].name # ret.text

\* The number a text of decimal digits denotes, and the number in tenths that
\* a text with one decimal place denotes.
DigitValue(c) == CHOOSE d \in 0..9 : DecimalDigits[d + 1] = c

RECURSIVE NaturalOf(_)
NaturalOf(text) == IF text = <<>> THEN 0 ELSE NaturalOf(SubSeq(text, 1, Len(text) - 1)) * 10 + DigitValue(text[Len(text)])

IsOneDecimal(text) ==
    /\ Len(text) >= 3
    /\ text[Len(text) - 1] = "."
    /\ \A i \in (1..Len(text)) \ {Len(text) - 1} : \E d \in 0..9 : DecimalDigits[d + 1] = text[i]
    /\ text[1] = "0" => Len(text) = 3

TenthsOf(text) == NaturalOf(SubSeq(text, 1, Len(text) - 2)) * 10 + DigitValue(text[Len(text)])

\* The number of Host entries of the products before product k, in family f.
RECURSIVE HostsBefore(_, _, _)
HostsBefore(products, f, k) ==
    IF k <= 1 THEN 0 ELSE HostsBefore(products, f, k - 1) + Len(HOSTS[f][products[k - 1]].ids)

\* The build whose manifest has been rendered, and a build of registry products.
Rendered == builds[ret.build]
KnownProducts(b, f) == \A k \in 1..Len(b.products) : b.products[k] \in HostProducts(f)

\* C13: for a build whose families is one string F, the Host list of the
\* manifest holds, product after product, one entry per host id of the
\* product in F, whose Version is version.min of the product in F with one
\* decimal place, without a bracket and without a maximum.
C13_MinimumModeHosts ==
    (fn = "generateBundleManifest" /\ Rendered.families.t = "str"
        /\ Rendered.families.s \in HostFamilies /\ KnownProducts(Rendered, Rendered.families.s)) =>
        LET f == Rendered.families.s
            products == Rendered.products
            hostList == ret.manifest.hostList
        IN /\ ret.manifest.error = "none"
           /\ Len(hostList) = HostsBefore(products, f, Len(products) + 1)
           /\ \A k \in 1..Len(products) : \A i \in 1..Len(HOSTS[f][products[k]].ids) :
                 LET entry == hostList[HostsBefore(products, f, k) + i]
                 IN /\ entry.name = HOSTS[f][products[k]].ids[i]
                    /\ IsOneDecimal(entry.version)
                    /\ TenthsOf(entry.version) = HOSTS[f][products[k]].version.min
                    /\ (f = cc2015 /\ products[k] = photoshop) => entry.version = <<"1", "6", ".", "0">>

\* The manifest of a build of photoshop with the family cc2015.
C13_Witness ==
    /\ fn = "generateBundleManifest"
    /\ Rendered.families = RawStr(cc2015)
    /\ Rendered.products = <<photoshop>>
    /\ ret.manifest.hostList = <<[name |-> "PHXS", version |-> <<"1", "6", ".", "0">>], [name |-> "PHSP", version |-> <<"1", "6", ".", "0">>]>>

\* The position of the comma of a text.
CommaOf(text) == CHOOSE i \in 1..Len(text) : text[i] = ","

\* A Version of the form [min,max], and its two bounds.
IsBracketed(text) ==
    /\ Len(text) >= 9
    /\ text[1] = "[" /\ text[Len(text)] = "]"
    /\ Cardinality({i \in 1..Len(text) : text[i] = ","}) = 1
    /\ IsOneDecimal(SubSeq(text, 2, CommaOf(text) - 1))
    /\ IsOneDecimal(SubSeq(text, CommaOf(text) + 1, Len(text) - 1))

LowerBound(text) == TenthsOf(SubSeq(text, 2, CommaOf(text) - 1))
UpperBound(text) == TenthsOf(SubSeq(text, CommaOf(text) + 1, Len(text) - 1))

\* C14: for a build whose families is an array of registry families, the
\* Host list holds, product after product, one entry per host id whose
\* Version is [min,max] with the min and max of getVersionRange(product,
\* families), also for an array of one family; and an entry of a manifest has
\* an upper bound exactly when families is an array.
C14_RangeModeHosts ==
    /\ (fn = "generateBundleManifest" /\ Rendered.families.t = "arr" /\ Rendered.families.a # <<>>
          /\ \A j \in 1..Len(Rendered.families.a) :
                Rendered.families.a[j] \in HostFamilies /\ KnownProducts(Rendered, Rendered.families.a[j])) =>
          LET f == Rendered.families.a[1]
              products == Rendered.products
              hostList == ret.manifest.hostList
          IN /\ ret.manifest.error = "none"
             /\ Len(hostList) = HostsBefore(products, f, Len(products) + 1)
             /\ \A k \in 1..Len(products) : \A i \in 1..Len(HOSTS[f][products[k]].ids) :
                   LET entry == hostList[HostsBefore(products, f, k) + i]
                       range == getVersionRange(products[k], Rendered.families.a)
                   IN /\ entry.name = HOSTS[f][products[k]].ids[i]
                      /\ IsBracketed(entry.version)
                      /\ LowerBound(entry.version) = range.min.v
                      /\ UpperBound(entry.version) = range.max.v
                      /\ (products[k] = photoshop /\ Rendered.families.a = <<cc2014, cc2015>>) =>
                            entry.version = <<"[", "1", "5", ".", "0", ",", "1", "6", ".", "9", "]">>
                      /\ (products[k] = photoshop /\ Rendered.families.a = <<cc2014>>) =>
                            entry.version = <<"[", "1", "5", ".", "0", ",", "1", "5", ".", "9", "]">>
    /\ fn = "generateBundleManifest" =>
          \A n \in 1..Len(ret.manifest.hostList) :
              (\E i \in 1..Len(ret.manifest.hostList[n].version) : ret.manifest.hostList[n].version[i] \in {"[", ",", "]"})
                  <=> Rendered.families.t = "arr"

\* The manifest of a build of photoshop whose families were configured as
\* [cc2015, cc2014].
C14_Witness ==
    /\ fn = "generateBundleManifest"
    /\ arg[ret.build].families = StrArray(<<cc2015, cc2014>>)
    /\ Rendered.products = <<photoshop>>
    /\ ret.manifest.hostList[1] = [name |-> "PHXS", version |-> <<"[", "1", "5", ".", "0", ",", "1", "6", ".", "9", "]">>]
    /\ Len(ret.manifest.hostList) = 2

\* C16: the families of a range-mode build that lists registry families, in
\* whatever order, stand from the earliest to the latest; the first one is a
\* listed family, its version.min of every product of the build is the min of
\* getVersionRange over the list, and it is the family of the default
\* manifest template.
C16_SortedIsChronological ==
    (fn = "generateBundleManifest" /\ Rendered.families.t = "arr" /\ Rendered.families.a # <<>>
        /\ \A j \in 1..Len(Rendered.families.a) : Rendered.families.a[j] \in HostFamilies) =>
        LET a == Rendered.families.a
            listed == arg[ret.build].families.a
        IN /\ \A i, j \in 1..Len(a) : i < j => Epoch(a[i]) <= Epoch(a[j])
           /\ \E j \in 1..Len(listed) : toLowerCase(listed[j].s) = a[1]
           /\ \A j \in 1..Len(listed) : Epoch(a[1]) <= Epoch(toLowerCase(listed[j].s))
           /\ \A product \in HostProducts(a[1]) :
                 getProduct(product, a[1]).host.version.min = getVersionRange(product, a).min.v
           /\ ret.manifest.familyName = a[1]

\* A build whose families were listed latest first.
C16_Witness ==
    /\ fn = "generateBundleManifest"
    /\ arg[ret.build].families = StrArray(<<cc2015_5, cc2015, cc>>)
    /\ Rendered.families.a = <<cc, cc2015, cc2015_5>>
    /\ ret.manifest.familyName = cc
    /\ ret.manifest.error = "none"

\* The (build, product) pairs in the order of the loops of generateMXI, and
\* the products in the order in which the pairs first name them.
RECURSIVE PairsFrom(_, _, _)
PairsFrom(bs, b, j) ==
    IF b > Len(bs) THEN <<>>
    ELSE IF j > Len(bs[b].products) THEN PairsFrom(bs, b + 1, 1)
    ELSE <<[build |-> b, product |-> bs[b].products[j]]>> \o PairsFrom(bs, b, j + 1)

Pairs == PairsFrom(builds, 1, 1)
FirstSeen == {n \in 1..Len(Pairs) : \A m \in 1..(n - 1) : Pairs[m].product # Pairs[n].product}
NthSeen(i) == Pairs[CHOOSE n \in FirstSeen : Cardinality({m \in FirstSeen : m < n}) = i - 1].product

\* The builds that target a product, and those of them in range mode.
Targeting(product) == {b \in 1..Len(builds) : \E k \in 1..Len(builds[b].products) : builds[b].products[k] = product}
RangeTargeting(product) == {b \in Targeting(product) : builds[b].families.t = "arr"}

\* C17: in the descriptor of generateMXI, the entry of a product has a
\* maxversion, and the file entries of the product a maxVersion, exactly when
\* a build that targets the product is in range mode; the version and the
\* minVersion are always there.
C17_MaxVersionIffRangeMode ==
    (fn = "generateMXI" /\ ret.error = "none") =>
        /\ Len(ret.productList) = Cardinality(FirstSeen)
        /\ \A i \in 1..Len(ret.productList) :
              /\ ret.productList[i].maxversion.present <=> RangeTargeting(NthSeen(i)) # {}
              /\ IsOneDecimal(ret.productList[i].version)
              /\ ret.productList[i].maxversion.present => IsOneDecimal(ret.productList[i].maxversion.text)
        /\ Len(ret.fileList) = Len(Pairs)
        /\ \A n \in 1..Len(ret.fileList) :
              /\ ret.fileList[n].maxVersion.present <=> RangeTargeting(Pairs[n].product) # {}
              /\ IsOneDecimal(ret.fileList[n].minVersion)
              /\ ret.fileList[n].maxVersion.present => IsOneDecimal(ret.fileList[n].maxVersion.text)

\* A minimum-mode build and then a range-mode build of photoshop: one product
\* entry with a version and a maxversion, and two file entries with both.
C17_Witness ==
    /\ fn = "generateMXI"
    /\ Len(builds) = 2
    /\ builds[1].families.t = "str" /\ builds[1].products = <<photoshop>>
    /\ builds[2].families.t = "arr" /\ builds[2].products = <<photoshop>>
    /\ Len(ret.productList) = 1
    /\ ret.productList[1].maxversion.present
    /\ ret.fileList[1].maxVersion.present /\ ret.fileList[2].maxVersion.present

\* The smallest and the largest number of a set.
Smallest(S) == CHOOSE x \in S : \A y \in S : x <= y
Largest(S) == CHOOSE x \in S : \A y \in S : x >= y

\* The version.min of every (build, family) pair that targets a product, and
\* the version.max of the families of its range-mode builds.
TargetedMinima(product) ==
    {HOSTS[TargetFamilies(builds[b])[j]][product].version.min : <<b, j>> \in {<<b, j>> \in Targeting(product) \X (1..MaxArrLen) : j <= Len(TargetFamilies(builds[b]))}}
TargetedMaxima(product) ==
    {HOSTS[builds[b].families.a[j]][product].version.max : <<b, j>> \in {<<b, j>> \in RangeTargeting(product) \X (1..MaxArrLen) : j <= Len(builds[b].families.a)}}

Reverse(seq) == [i \in 1..Len(seq) |-> seq[Len(seq) + 1 - i]]

\* C18: the minimum that generateMXI accumulates for a product is the
\* smallest version.min over the (build, family) pairs that target it, the
\* maximum, when there is one, is the largest version.max over the families of
\* the range-mode builds that target it, the minimum is at most the maximum,
\* the entries are written with these bounds, and the builds taken in the
\* reverse order accumulate the same bounds.
C18_AccumulatedBounds ==
    (fn = "generateMXI" /\ ret.error = "none") =>
        /\ Len(ret.targets) = Cardinality(FirstSeen)
        /\ \A i \in 1..Len(ret.targets) :
              LET target == ret.targets[i]
                  product == NthSeen(i)
              IN /\ target.product = product
                 /\ target.min.t = "num"
                 /\ target.min.v = Smallest(TargetedMinima(product))
                 /\ TenthsOf(ret.productList[i].version) = target.min.v
                 /\ target.max.t = "num" <=> RangeTargeting(product) # {}
                 /\ target.max.t = "num" =>
                       /\ target.max.v = Largest(TargetedMaxima(product))
                       /\ target.min.v <= target.max.v
                       /\ TenthsOf(ret.productList[i].maxversion.text) = target.max.v
                 /\ \A j \in 1..Len(generateMXI(Reverse(builds)).targets) :
                       generateMXI(Reverse(builds)).targets[j].product = product =>
                           /\ generateMXI(Reverse(builds)).targets[j].min = target.min
                           /\ generateMXI(Reverse(builds)).targets[j].max = target.max
        /\ \A n \in 1..Len(ret.fileList) :
              /\ TenthsOf(ret.fileList[n].minVersion) = Smallest(TargetedMinima(Pairs[n].product))
              /\ ret.fileList[n].maxVersion.present =>
                    TenthsOf(ret.fileList[n].maxVersion.text) = Largest(TargetedMaxima(Pairs[n].product))

\* A later build lowers the minimum and raises the maximum of the first one.
C18_Witness ==
    /\ fn = "generateMXI"
    /\ Len(builds) = 2
    /\ builds[1].families.a = <<cc2014, cc2015>> /\ builds[1].families.t = "arr"
    /\ builds[2].families.a = <<cc, cc2015_5>> /\ builds[2].families.t = "arr"
    /\ \E i \in 1..Len(ret.targets) :
          /\ ret.targets[i].product = photoshop
          /\ ret.targets[i].min.v = 140
          /\ ret.targets[i].max.v = 179

\* The families of the builds that target a product.
TargetedFamilies(product) == {TargetFamilies(builds[b])[j] : <<b, j>> \in {<<b, j>> \in Targeting(product) \X (1..MaxArrLen) : j <= Len(TargetFamilies(builds[b]))}}

\* C19: the minFamily that generateMXI records for a product is the lowest
\* family among the target families of all builds that target the product.
C19_MinFamilyIsLowest ==
    (fn = "generateMXI" /\ ret.error = "none") =>
        \A i \in 1..Len(ret.targets) :
            \A f \in TargetedFamilies(ret.targets[i].product) : Epoch(ret.targets[i].minFamily) <= Epoch(f)

\* C21: an option that the caller of Cepy.launch or Cepy.pack supplies is
\* the one the call works with: decorate and debug are the given booleans,
\* product and family the given values.
C21_OptionsTakePrecedence ==
    run.op \in {"launch", "pack"} =>
        \A k \in DOMAIN run.options :
            IF k \in {"decorate", "debug"} THEN run[k] = ToBoolean(run.options[k]) ELSE run[k] = run.options[k]

\* C28: Cepy.launch on a configuration without builds is rejected for the
\* lack of builds, whatever the build name.
C28_NoBuildsError ==
    (run.op = "launch" /\ Len(builds) = 0) => (run.phase = "rejected" /\ run.error = "nobuilds")

\* C26: a Build.decorate in debug mode that fails for the debug port leaves
\* the bundle id and name and the extensions as they were when it was called.
C26_InvalidPortAppliesNothing ==
    \A b \in BuildIds :
        (task[b].pc = "rejected" /\ task[b].error = "port") =>
            /\ builds[b].bundle.id = atEntry[b].bundle.id
            /\ builds[b].bundle.name = atEntry[b].bundle.name
            /\ builds[b].extensions = atEntry[b].extensions

\* What a call of Build.launch asks for, and whether the build declares it.
Requested(v) == v.t = "str" /\ v.s # <<>>
ProductDeclared(b) == \E k \in 1..Len(builds[b].products) : builds[b].products[k] = toLowerCase(run.product.s)
FamilyDeclared(b) == \E j \in 1..Len(TargetFamilies(builds[b])) : TargetFamilies(builds[b])[j] = toLowerCase(run.family.s)
NotAmongTargets(b) == (Requested(run.product) /\ ~ProductDeclared(b)) \/ (Requested(run.family) /\ ~FamilyDeclared(b))

\* Build.launch on build b is past the step that settles the product and the family.
Detected(b) ==
    /\ run.op = "build.launch" /\ run.target = b
    /\ \/ task[b].pc \in {"install", "done"}
       \/ task[b].pc = "rejected" /\ task[b].error \notin ValidationErrors \cup {"launch"}

\* C22: Build.launch fails with the not-in-build error exactly when a
\* requested product or family is not among those of the build; otherwise it
\* goes on to the host lookup, with the first product and the first family
\* where none is requested.
C22_NotInBuildExactly ==
    \A b \in BuildIds :
        Detected(b) =>
            /\ task[b].error = "notinbuild" <=> NotAmongTargets(b)
            /\ ~NotAmongTargets(b) => task[b].error \in {"none", "host"}
            /\ (~Requested(run.product) /\ ~Requested(run.family)) =>
                  (task[b].error = "none" <=> getProductDefined(builds[b].products[1], TargetFamilies(builds[b])[1]))

\* The phases of Cepy.pack from the call of generateMXI to the final signing.
DescriptorPhases == {"finish", "copy", "sign", "signing"}

\* C23: when Cepy.pack calls generateMXI, and from then to the final
\* signing, every build is initialized, has its baseName, and has completed
\* its Build.pack successfully; no chain of a build is in flight.
C23_JoinBarrier ==
    (run.op = "pack" /\ run.phase \in DescriptorPhases) =>
        \A b \in BuildIds :
            /\ builds[b].initialized
            /\ builds[b].baseName # <<>>
            /\ task[b].pc = "done"
            /\ task[b].chain = "pack"

\* The descriptor of two builds has been rendered.
C23_Witness ==
    /\ run.op = "pack"
    /\ run.phase = "copy"
    /\ Len(builds) = 2
    /\ \A b \in BuildIds : task[b].pc = "done" /\ builds[b].initialized

\* C24: the final zxp.createPackage of a run of Cepy.pack is invoked only
\* when the packaging section was valid, the certificate was found or
\* generated, every build was decorated and packaged and the descriptor could
\* be made; a run that fails at an earlier step never invokes it and ends
\* rejected.
C24_FailureIsFatal ==
    run.op = "pack" =>
        /\ run.effects.sign # "no" =>
              /\ IsNonEmptyString(arg.output) /\ IsNonEmptyString(arg.staging)
              /\ arg.certificate.file.t = "str"
              /\ run.effects.selfSign => IsNonEmptyString(arg.certificate.owner)
              /\ \A b \in BuildIds : task[b].pc = "done" /\ task[b].chain = "pack"
              /\ generateMXI(builds).error = "none"
        /\ (run.failed /\ run.error # "sign") => run.effects.sign = "no"
        /\ (run.phase = "settled" /\ run.effects.sign # "done") => run.failed

\* A run has ended rejected because the signing of one build failed, and the
\* final signing was not invoked.
C24_Witness ==
    /\ run.op = "pack"
    /\ run.phase = "settled"
    /\ run.failed
    /\ \E b \in BuildIds : task[b].pc = "rejected" /\ task[b].error = "zxp"
    /\ run.effects.sign = "no"

\* C27: a run of Cepy.pack whose staging path is a non-empty string comes to
\* remove the staging folder, at whatever step it fails or if it succeeds;
\* and a run that has not failed removes it only once the final signing is
\* done.
C27_StagingRemoved ==
    /\ [](( run.op = "pack" /\ run.effects.removed /\ ~run.failed) => run.effects.sign = "done")
    /\ ((run.op = "pack" /\ IsNonEmptyString(arg.staging)) ~> (run.op = "pack" /\ run.effects.removed))

\* A run that was rejected for its output file name has removed the staging folder.
C27_Witness ==
    /\ run.op = "pack"
    /\ run.phase = "settled"
    /\ run.error = "output"
    /\ IsNonEmptyString(arg.staging)
    /\ run.effects.removed

\* C29: the staging folder is not removed while the chain of a build is in flight.
C29_NoRemovalWhileInFlight ==
    (run.op = "pack" /\ run.effects.removed) => \A b \in BuildIds : Settled(b)

\* C30: no self-sign command is executed for a certificate whose owner is
\* missing or empty.
C30_NoSelfSignWithoutOwner ==
    (run.op = "pack" /\ ~IsNonEmptyString(arg.certificate.owner)) => ~run.effects.selfSign

\* C25: the data of the bundle manifest hold the <Extension> entries and the
\* fragments of the extensions in the order in which the build declares its
\* extensions, in every order of completion of the template reads.
C25_DeclaredOrder ==
    fn = "rendered" =>
        /\ ret.data.extensionList = [i \in 1..Len(builds[1].extensions) |-> ExtensionEntry(builds[1].extensions[i])]
        /\ ret.data.dispatchInfoList = [i \in 1..Len(builds[1].extensions) |-> ExtensionManifest(builds[1].extensions[i])]

====
